---- MODULE Spec2Model ----
(***************************************************************************)
(* Model of the real-time project chat of flow-backend: the socket.io      *)
(* handlers of src/index.js (join, send, typing, edit, delete,             *)
(* disconnect), the in-memory rate-limit and typing maps, and the          *)
(* ChatMessages / ProjectMembers tables they read and write.               *)
(*                                                                         *)
(* Every handler is cut at its awaits and store callbacks: the synchronous *)
(* prefix is one action, and each store completion is one action, so the   *)
(* event loop may interleave other events between them.  Every store call  *)
(* may fail (ok = FALSE).                                                  *)
(***************************************************************************)
EXTENDS Integers, Sequences, FiniteSets, TLC

\* ---------------------------------------------------------------- bounds
\* rows the ChatMessages table can hold
MaxMessages == 2
\* handler invocations that can be suspended at a store call at once
MaxInflight == 2
\* clock steps, and how many of them make one rate window
MaxTicks == 5
TicksPerWindow == 4
\* clock steps while typing presence is observed
TypingTicks == 2

\* ------------------------------------------------------ program constants
RATE_LIMIT_WINDOW == 10000
MAX_MESSAGES_PER_WINDOW == 5
TYPING_TIMEOUT == 3000

\* connections, user ids and project ids
Conns == {1, 2}
Users == {1, 2}
Projects == {1, 2}

\* Length of one clock step in milliseconds.
TickMs == RATE_LIMIT_WINDOW \div TicksPerWindow

\* ------------------------------------------------------------- JS values
\* Strings are sequences of one-character strings; SP is a whitespace.
SP == " "
\* A payload field that is absent (undefined).
Undefined == <<"undefined">>
\* SQL NULL in a text column / a column holding an integer.
NullText == <<"NULL">>
NullName == "NULL"
NullId == 0

Contents == {Undefined, <<>>, <<SP>>, <<"h", SP>>}
NewContents == {<<>>, <<SP, "e">>}
\* the contents of two sends told apart
FirstContent == <<"h", SP>>
SecondContent == <<SP, "e">>

RECURSIVE TrimStart(_)
TrimStart(s) ==
    IF s = <<>> THEN <<>>
    ELSE IF Head(s) = SP THEN TrimStart(Tail(s)) ELSE s

RECURSIVE TrimEnd(_)
TrimEnd(s) ==
    IF s = <<>> THEN <<>>
    ELSE IF s[Len(s)] = SP THEN TrimEnd(SubSeq(s, 1, Len(s) - 1)) ELSE s

\* String.prototype.trim
Trim(s) == TrimEnd(TrimStart(s))

\* the validation without the trim: !messageContent
IsBlank_NoTrim(s) == s = Undefined \/ s = <<>>

\* !messageContent || !messageContent.trim()
IsBlank(s) == s = Undefined \/ s = <<>> \/ Trim(s) = <<>>

\* ------------------------------------------------------------------ state
VARIABLES
    now,                   \* Date.now(), milliseconds
    projects,              \* ids of the rows of table Projects
    projectMembers,        \* ProjectMembers.invitationStatus per (project, user)
    messages,              \* ChatMessages rows, row i has id i
    sockets,               \* per connection: connected, rooms, stamped identity
    userMessageRateLimit,  \* senderId -> NoWindow | [count, timestamp]
    typingUsers,           \* (projectId, userId) -> timer handle or NoTimer
    timers,                \* pending setTimeout timers
    inflight,              \* handler invocations suspended at a store call
    emitted,               \* events emitted by the last step, in order
    admitted               \* observation: per senderId, when sends were admitted

vars == <<now, projects, projectMembers, messages, sockets, userMessageRateLimit,
          typingUsers, timers, inflight, emitted, admitted>>

NoWindow == [count |-> 0, timestamp |-> 0]
NoTimer == 0
NoRow == [id |-> NullId]

\* ----------------------------------------------------------------- store
\* CURRENT_TIMESTAMP has a resolution of one second.
CurrentTimestamp == now \div 1000
NullTime == -1

\* INSERT INTO ChatMessages (...) VALUES (...), column defaults from the schema
NewRow(id, projectId, senderId, senderName, content, replyId, replyUserId, replyName, replyContent) ==
    [id |-> id, projectId |-> projectId, senderId |-> senderId,
     senderName |-> senderName, messageContent |-> content,
     replyToMessageId |-> replyId, replyToUserId |-> replyUserId,
     replyToUserName |-> replyName, replyToMessageContent |-> replyContent,
     messageStatus |-> "sent", isDeleted |-> 0, editedAt |-> NullTime,
     createdAt |-> CurrentTimestamp, updatedAt |-> CurrentTimestamp]

\* SELECT * FROM ChatMessages WHERE id = ?
SelectById(id) ==
    IF id \in 1 .. Len(messages) THEN messages[id] ELSE NoRow

\* SELECT ... FROM ChatMessages WHERE id = ? AND isDeleted = 0
SelectLiveById(id) ==
    IF id \in 1 .. Len(messages) /\ messages[id].isDeleted = 0
    THEN messages[id] ELSE NoRow

\* isProjectMember without the invitationStatus test: any row counts
isProjectMember_AnyStatus(projectId, userId) ==
    /\ projectId \in Projects
    /\ projectId \in projects
    /\ userId \in Users
    /\ projectMembers[<<projectId, userId>>] # "none"

\* isProjectMember: ProjectMembers JOIN Projects finds a row, that is the
\* project exists and the user has a row with invitationStatus = 'approved'
isProjectMember(projectId, userId) ==
    /\ projectId \in Projects
    /\ projectId \in projects
    /\ userId \in Users
    /\ projectMembers[<<projectId, userId>>] = "approved"

\* -------------------------------------------------------------- emitting
Event(ev, from, to, msg, userId, userName, messageId, row) ==
    [ev |-> ev, from |-> from, to |-> to, msg |-> msg, userId |-> userId,
     userName |-> userName, messageId |-> messageId, row |-> row]

\* a socket whose connection is open
Connected(c) == sockets[c].status = "connected"

\* the connections in room project-<projectId>
Room(projectId) ==
    {c \in Conns : Connected(c) /\ projectId \in sockets[c].rooms}

\* the error sent with io.emit: every open connection receives it
EmitError_Broadcast(c, msg) ==
    Event("error", c, {d \in Conns : Connected(d)}, msg,
          NullId, NullName, NullId, NoRow)

\* socket.emit('error', { message })
EmitError(c, msg) ==
    Event("error", c, IF Connected(c) THEN {c} ELSE {}, msg,
          NullId, NullName, NullId, NoRow)


\* io.to(`project-${projectId}`).emit(ev, ...)
EmitRoom(ev, from, projectId, userId, userName, messageId, row) ==
    Event(ev, from, Room(projectId), "", userId, userName, messageId, row)

\* the event sent with io.to(room): the socket itself is not left out
EmitOthers_IncludeSelf(ev, c, projectId, userId, userName) ==
    Event(ev, c, Room(projectId), "", userId, userName, NullId, NoRow)

\* socket.to(`project-${projectId}`).emit(ev, ...): the room without the socket
EmitOthers(ev, c, projectId, userId, userName) ==
    Event(ev, c, Room(projectId) \ {c}, "", userId, userName, NullId, NoRow)

\* ------------------------------------------------------- handler records
NoSocket == [status |-> "new", rooms |-> {}, projectId |-> NullId,
             userId |-> NullId, userName |-> NullName]

Handler(kind, pc, c, projectId, userId, userName, content, messageId, replyUserId) ==
    [kind |-> kind, pc |-> pc, conn |-> c, projectId |-> projectId,
     userId |-> userId, userName |-> userName, content |-> content,
     messageId |-> messageId, replyToUserId |-> replyUserId,
     replyToUserName |-> NullName, replyToMessageContent |-> NullText,
     lastID |-> NullId, page |-> 0, limit |-> 0, total |-> 0,
     status |-> NullName]

Idle == Handler("idle", "idle", 0, NullId, NullId, NullName, Undefined,
                NullId, NullId)

Slots == 1 .. MaxInflight
FreeSlots == {h \in Slots : inflight[h] = Idle}
HasFreeSlot == FreeSlots # {}
\* the slot a handler that reaches its first await is suspended in
NextSlot == CHOOSE h \in FreeSlots : \A g \in FreeSlots : h <= g
Suspend(rec) == [inflight EXCEPT ![NextSlot] = rec]
Finish(h) == [inflight EXCEPT ![h] = Idle]
Resume(h, pc) == [inflight EXCEPT ![h].pc = pc]

\* ----------------------------------------------------------- rate limiter
\* RateLimitCheck with the capacity test off by one (count > max)
RateLimitCheck_OffByOne(senderId) ==
    LET userRateData == userMessageRateLimit[senderId]
        opened == [userMessageRateLimit EXCEPT
                     ![senderId] = [count |-> 1, timestamp |-> now]]
    IN  IF userRateData # NoWindow
        THEN IF now - userRateData.timestamp < RATE_LIMIT_WINDOW
             THEN IF userRateData.count > MAX_MESSAGES_PER_WINDOW
                  THEN [admit |-> FALSE, map |-> userMessageRateLimit]
                  ELSE [admit |-> TRUE,
                        map |-> [userMessageRateLimit EXCEPT
                                   ![senderId].count = @ + 1]]
             ELSE [admit |-> TRUE, map |-> opened]
        ELSE [admit |-> TRUE, map |-> opened]

\* RateLimitCheck counting the sends it refuses as well
RateLimitCheck_CountRejected(senderId) ==
    LET userRateData == userMessageRateLimit[senderId]
        opened == [userMessageRateLimit EXCEPT
                     ![senderId] = [count |-> 1, timestamp |-> now]]
        counted == [userMessageRateLimit EXCEPT ![senderId].count = @ + 1]
    IN  IF userRateData # NoWindow
        THEN IF now - userRateData.timestamp < RATE_LIMIT_WINDOW
             THEN IF userRateData.count >= MAX_MESSAGES_PER_WINDOW
                  THEN [admit |-> FALSE, map |-> counted]
                  ELSE [admit |-> TRUE, map |-> counted]
             ELSE [admit |-> TRUE, map |-> opened]
        ELSE [admit |-> TRUE, map |-> opened]

\* RateLimitCheck with the window still open at exactly its length (<=)
RateLimitCheck_StrictBoundary(senderId) ==
    LET userRateData == userMessageRateLimit[senderId]
        opened == [userMessageRateLimit EXCEPT
                     ![senderId] = [count |-> 1, timestamp |-> now]]
    IN  IF userRateData # NoWindow
        THEN IF now - userRateData.timestamp <= RATE_LIMIT_WINDOW
             THEN IF userRateData.count >= MAX_MESSAGES_PER_WINDOW
                  THEN [admit |-> FALSE, map |-> userMessageRateLimit]
                  ELSE [admit |-> TRUE,
                        map |-> [userMessageRateLimit EXCEPT
                                   ![senderId].count = @ + 1]]
             ELSE [admit |-> TRUE, map |-> opened]
        ELSE [admit |-> TRUE, map |-> opened]

\* The rate limiting check of the send-message handler: whether the send
\* is admitted, and the map afterwards.
RateLimitCheck(senderId) ==
    LET userRateData == userMessageRateLimit[senderId]
        opened == [userMessageRateLimit EXCEPT
                     ![senderId] = [count |-> 1, timestamp |-> now]]
    IN  IF userRateData # NoWindow
        THEN IF now - userRateData.timestamp < RATE_LIMIT_WINDOW
             THEN IF userRateData.count >= MAX_MESSAGES_PER_WINDOW
                  THEN [admit |-> FALSE, map |-> userMessageRateLimit]
                  ELSE [admit |-> TRUE,
                        map |-> [userMessageRateLimit EXCEPT
                                   ![senderId].count = @ + 1]]
             ELSE [admit |-> TRUE, map |-> opened]
        ELSE [admit |-> TRUE, map |-> opened]

\* ------------------------------------------------------- typing presence
TimerIds == 1 .. (Cardinality(Projects \X Users) + 1)
UsedTimerIds == {t.id : t \in timers}
                  \cup {typingUsers[k] : k \in DOMAIN typingUsers}
\* the handle setTimeout returns: a timer object distinct from every live one
FreshTimer == CHOOSE i \in TimerIds \ UsedTimerIds :
                  \A j \in TimerIds \ UsedTimerIds : i <= j

\* clearTimeout(handle)
ClearTimeout(ts, handle) == {t \in ts : t.id # handle}

\* clearTypingIndicator deleting the entry without clearTimeout
ClearTypingIndicator_NoClearTimeout(ty, ts, projectId, userId) ==
    IF <<projectId, userId>> \in DOMAIN ty /\ ty[<<projectId, userId>>] # NoTimer
    THEN [typing |-> [ty EXCEPT ![<<projectId, userId>>] = NoTimer],
          timers |-> ts,
          events |-> <<EmitRoom("user-stopped-typing", 0, projectId, userId,
                                NullName, NullId, NoRow)>>]
    ELSE [typing |-> ty, timers |-> ts, events |-> <<>>]

\* clearTypingIndicator without the notification of the room
ClearTypingIndicator_Silent(ty, ts, projectId, userId) ==
    IF <<projectId, userId>> \in DOMAIN ty /\ ty[<<projectId, userId>>] # NoTimer
    THEN [typing |-> [ty EXCEPT ![<<projectId, userId>>] = NoTimer],
          timers |-> ClearTimeout(ts, ty[<<projectId, userId>>]),
          events |-> <<>>]
    ELSE [typing |-> ty, timers |-> ts, events |-> <<>>]

\* clearTypingIndicator(projectId, userId) on typing map ty and timers ts:
\* the maps afterwards and the events emitted
ClearTypingIndicator(ty, ts, projectId, userId) ==
    IF <<projectId, userId>> \in DOMAIN ty /\ ty[<<projectId, userId>>] # NoTimer
    THEN [typing |-> [ty EXCEPT ![<<projectId, userId>>] = NoTimer],
          timers |-> ClearTimeout(ts, ty[<<projectId, userId>>]),
          events |-> <<EmitRoom("user-stopped-typing", 0, projectId, userId,
                                NullName, NullId, NoRow)>>]
    ELSE [typing |-> ty, timers |-> ts, events |-> <<>>]

\* ------------------------------------------------------------------- Init
InitMembers ==
    [k \in Projects \X Users |->
        IF k[1] = k[2] THEN "approved"
        ELSE IF k[1] = 1 THEN "pending" ELSE "none"]

Init ==
    /\ now = 0
    /\ projects = Projects
    /\ projectMembers = InitMembers
    /\ messages = <<>>
    /\ sockets = [c \in Conns |-> NoSocket]
    /\ userMessageRateLimit = [u \in Users |-> NoWindow]
    /\ typingUsers = [k \in Projects \X Users |-> NoTimer]
    /\ timers = {}
    /\ inflight = [h \in Slots |-> Idle]
    /\ emitted = <<>>
    /\ admitted = [u \in Users |-> <<>>]

\* ------------------------------------------------------------ environment
\* io.on('connection'): a client opens connection c
Connect(c) ==
    /\ sockets[c].status = "new"
    /\ sockets' = [sockets EXCEPT ![c].status = "connected"]
    /\ emitted' = <<>>
    /\ UNCHANGED admitted
    /\ UNCHANGED <<now, projects, projectMembers, messages, userMessageRateLimit,
                   typingUsers, timers, inflight>>

\* the clock advances by one step, at most `steps` times
Tick(steps) ==
    /\ now + TickMs <= steps * TickMs
    /\ now' = now + TickMs
    /\ emitted' = <<>>
    /\ UNCHANGED admitted
    /\ UNCHANGED <<projects, projectMembers, messages, sockets,
                   userMessageRateLimit,
                   typingUsers, timers, inflight>>

\* ------------------------------------------------- project controller
\* The responses of these handlers are not observed: the steps emit nothing.
\* createProject adds the creator as an approved member: user p wrote project p
Author(projectId) == projectId

\* DELETE FROM ProjectMembers WHERE projectId = ?
DeleteMembers(projectId) ==
    [k \in Projects \X Users |->
        IF k[1] = projectId THEN "none" ELSE projectMembers[k]]

\* deleteProject is received: SELECT authorId FROM Projects WHERE id = ?
DeleteProject(projectId, userId) ==
    /\ HasFreeSlot
    /\ inflight' = Suspend(Handler("deleteProject", "delete_check", 0,
                                   projectId, userId, NullName, Undefined,
                                   NullId, NullId))
    /\ emitted' = <<>>
    /\ UNCHANGED admitted
    /\ UNCHANGED <<now, projects, projectMembers, messages,
                   sockets, userMessageRateLimit, typingUsers, timers>>

\* the ownership lookup of deleteProject completes: 500 on an error, 404
\* without the project, 403 for a requester other than the author
DeleteProjectCheck(h, ok) ==
    LET r == inflight[h] IN
    /\ r.pc = "delete_check"
    /\ inflight' = IF /\ ok
                      /\ r.projectId \in projects
                      /\ Author(r.projectId) = r.userId
                   THEN Resume(h, "delete_members")
                   ELSE Finish(h)
    /\ emitted' = <<>>
    /\ UNCHANGED admitted
    /\ UNCHANGED <<now, projects, projectMembers, messages,
                   sockets, userMessageRateLimit, typingUsers, timers>>

\* DELETE FROM ProjectMembers completes, DELETE FROM Tasks is next
DeleteProjectMembers(h, ok) ==
    LET r == inflight[h] IN
    /\ r.pc = "delete_members"
    /\ IF ok
       THEN /\ projectMembers' = DeleteMembers(r.projectId)
            /\ inflight' = Resume(h, "delete_tasks")
       ELSE /\ UNCHANGED projectMembers
            /\ inflight' = Finish(h)
    /\ emitted' = <<>>
    /\ UNCHANGED admitted
    /\ UNCHANGED <<now, projects, messages, sockets,
                   userMessageRateLimit, typingUsers, timers>>

\* DELETE FROM Tasks completes, DELETE FROM Projects is next
DeleteProjectTasks(h, ok) ==
    LET r == inflight[h] IN
    /\ r.pc = "delete_tasks"
    /\ inflight' = IF ok THEN Resume(h, "delete_project") ELSE Finish(h)
    /\ emitted' = <<>>
    /\ UNCHANGED admitted
    /\ UNCHANGED <<now, projects, projectMembers, messages,
                   sockets, userMessageRateLimit, typingUsers, timers>>

\* DELETE FROM Projects WHERE id = ? completes: the response
DeleteProjectRow(h, ok) ==
    LET r == inflight[h] IN
    /\ r.pc = "delete_project"
    /\ inflight' = Finish(h)
    /\ projects' = IF ok THEN projects \ {r.projectId} ELSE projects
    /\ emitted' = <<>>
    /\ UNCHANGED admitted
    /\ UNCHANGED <<now, projectMembers, messages, sockets,
                   userMessageRateLimit, typingUsers, timers>>

\* approveRequest: UPDATE ProjectMembers SET invitationStatus = 'approved'
\* WHERE projectId = ? AND userId = ? AND invitationStatus = 'pending'
ApproveRequest(projectId, userId) ==
    /\ projectMembers' =
           IF projectMembers[<<projectId, userId>>] = "pending"
           THEN [projectMembers EXCEPT ![<<projectId, userId>>] = "approved"]
           ELSE projectMembers
    /\ emitted' = <<>>
    /\ UNCHANGED admitted
    /\ UNCHANGED <<now, projects, messages, sockets,
                   userMessageRateLimit, typingUsers, timers, inflight>>

\* rejectRequest: DELETE FROM ProjectMembers
\* WHERE projectId = ? AND userId = ? AND invitationStatus = 'pending'
RejectRequest(projectId, userId) ==
    /\ projectMembers' =
           IF projectMembers[<<projectId, userId>>] = "pending"
           THEN [projectMembers EXCEPT ![<<projectId, userId>>] = "none"]
           ELSE projectMembers
    /\ emitted' = <<>>
    /\ UNCHANGED admitted
    /\ UNCHANGED <<now, projects, messages, sockets,
                   userMessageRateLimit, typingUsers, timers, inflight>>

\* joinProject is received with the join code of project projectId:
\* SELECT * FROM Projects WHERE LOWER(joinCode) = LOWER(?), unless the user
\* id is missing (400)
JoinProject(projectId, userId) ==
    /\ userId = NullId \/ HasFreeSlot
    /\ inflight' =
           IF userId = NullId THEN inflight
           ELSE Suspend(Handler("joinProject", "joinp_find", 0, projectId,
                                userId, NullName, Undefined, NullId, NullId))
    /\ emitted' = <<>>
    /\ UNCHANGED admitted
    /\ UNCHANGED <<now, projects, projectMembers, messages,
                   sockets, userMessageRateLimit, typingUsers, timers>>

\* the lookup of the project completes: 500 on an error, 404 without the
\* project, 400 for its author; else SELECT * FROM ProjectMembers is next
JoinProjectFind(h, ok) ==
    LET r == inflight[h] IN
    /\ r.pc = "joinp_find"
    /\ inflight' = IF /\ ok
                      /\ r.projectId \in projects
                      /\ Author(r.projectId) # r.userId
                   THEN Resume(h, "joinp_check")
                   ELSE Finish(h)
    /\ emitted' = <<>>
    /\ UNCHANGED admitted
    /\ UNCHANGED <<now, projects, projectMembers, messages,
                   sockets, userMessageRateLimit, typingUsers, timers>>

\* the lookup of the user's row completes: 400 when there is one, else the
\* INSERT is next
JoinProjectCheck(h, ok) ==
    LET r == inflight[h] IN
    /\ r.pc = "joinp_check"
    /\ inflight' = IF ok /\ projectMembers[<<r.projectId, r.userId>>] = "none"
                   THEN Resume(h, "joinp_insert")
                   ELSE Finish(h)
    /\ emitted' = <<>>
    /\ UNCHANGED admitted
    /\ UNCHANGED <<now, projects, projectMembers, messages,
                   sockets, userMessageRateLimit, typingUsers, timers>>

\* INSERT INTO ProjectMembers (..., 'pending') completes: the response.
\* UNIQUE(projectId, userId) fails the INSERT when a row has appeared since
\* the lookup; foreign keys are not enforced, the project may be gone.
JoinProjectInsert(h, ok) ==
    LET r == inflight[h] IN
    /\ r.pc = "joinp_insert"
    /\ inflight' = Finish(h)
    /\ projectMembers' =
           IF ok /\ projectMembers[<<r.projectId, r.userId>>] = "none"
           THEN [projectMembers EXCEPT ![<<r.projectId, r.userId>>] = "pending"]
           ELSE projectMembers
    /\ emitted' = <<>>
    /\ UNCHANGED admitted
    /\ UNCHANGED <<now, projects, messages, sockets,
                   userMessageRateLimit, typingUsers, timers>>

\* ------------------------------------------------------- join-project-chat
\* the handler up to `await isProjectMember(projectId, userId)`
JoinProjectChat(c, projectId, userId, userName) ==
    /\ Connected(c)
    /\ HasFreeSlot
    /\ inflight' = Suspend(Handler("join", "join_member", c, projectId,
                                   userId, userName, Undefined, NullId,
                                   NullId))
    /\ emitted' = <<>>
    /\ UNCHANGED admitted
    /\ UNCHANGED <<now, projects, projectMembers, messages, sockets,
                   userMessageRateLimit, typingUsers, timers>>

\* socket.join and the identity stamp
JoinRoom(c, projectId, userId, userName) ==
    [sockets EXCEPT ![c].rooms = @ \cup {projectId},
                    ![c].projectId = projectId,
                    ![c].userId = userId,
                    ![c].userName = userName]

\* the identity stamp alone: socket.join on a closed socket does nothing
\* since socket.io 4.5.2
JoinStamp(c, projectId, userId, userName) ==
    [sockets EXCEPT ![c].projectId = projectId,
                    ![c].userId = userId,
                    ![c].userName = userName]

\* what lines 84-87 leave behind: on an open socket the room and the stamp;
\* on a closed one the stamp, and the room only with a socket.io older than
\* 4.5.2 (the repository does not pin the version)
JoinOutcomes(c, projectId, userId, userName) ==
    IF Connected(c)
    THEN {JoinRoom(c, projectId, userId, userName)}
    ELSE {JoinRoom(c, projectId, userId, userName),
          JoinStamp(c, projectId, userId, userName)}

\* the membership query of a join completes
JoinMembership(h, ok) ==
    LET r == inflight[h] IN
    /\ r.pc = "join_member"
    /\ inflight' = Finish(h)
    /\ IF ~ok
       THEN /\ emitted' = <<EmitError(r.conn, "Failed to join chat")>>
            /\ UNCHANGED sockets
       ELSE IF ~isProjectMember(r.projectId, r.userId)
       THEN /\ emitted' = <<EmitError(r.conn,
                              "You must be a project member to join chat")>>
            /\ UNCHANGED sockets
       ELSE /\ sockets' \in JoinOutcomes(r.conn, r.projectId, r.userId,
                                         r.userName)
            /\ emitted' = <<EmitOthers("user-joined", r.conn, r.projectId,
                                       r.userId, r.userName)>>
    /\ UNCHANGED admitted
    /\ UNCHANGED <<now, projects, projectMembers, messages, userMessageRateLimit,
                   typingUsers, timers>>

\* ------------------------------------------------------------ send-message
\* the store has room for one more row
CanInsert == Len(messages) < MaxMessages

\* the handler up to `await isProjectMember(projectId, senderId)`:
\* rate limiting, then validation of the content
\* the send handler validating the content before the rate limiter runs
SendMessage_ValidateFirst(c, projectId, senderId, senderName, messageContent, replyToMessageId, replyToUserId) ==
    LET rl == RateLimitCheck(senderId) IN
    /\ Connected(c)
    /\ (rl.admit /\ ~IsBlank(messageContent)) => HasFreeSlot
    /\ IF IsBlank(messageContent)
       THEN /\ emitted' = <<EmitError(c, "Message cannot be empty")>>
            /\ UNCHANGED <<inflight, userMessageRateLimit>>
       ELSE /\ userMessageRateLimit' = rl.map
            /\ IF ~rl.admit
               THEN /\ emitted' = <<EmitError(c,
                         "You are sending messages too quickly. Please wait a moment.")>>
                    /\ UNCHANGED inflight
               ELSE /\ inflight' = Suspend(Handler("send", "send_member", c,
                                      projectId, senderId, senderName,
                                      messageContent, replyToMessageId,
                                      replyToUserId))
                    /\ emitted' = <<>>
    /\ UNCHANGED <<now, projects, projectMembers, messages, sockets, typingUsers,
                   timers>>

SendMessage(c, projectId, senderId, senderName, messageContent, replyToMessageId, replyToUserId) ==
    LET rl == RateLimitCheck(senderId) IN
    /\ Connected(c)
    /\ (rl.admit /\ ~IsBlank(messageContent)) => HasFreeSlot
    /\ userMessageRateLimit' = rl.map
    /\ IF ~rl.admit
       THEN /\ emitted' = <<EmitError(c,
                 "You are sending messages too quickly. Please wait a moment.")>>
            /\ UNCHANGED inflight
       ELSE /\ IF IsBlank(messageContent)
               THEN /\ emitted' = <<EmitError(c, "Message cannot be empty")>>
                    /\ UNCHANGED inflight
               ELSE /\ inflight' = Suspend(Handler("send", "send_member", c,
                                      projectId, senderId, senderName,
                                      messageContent, replyToMessageId,
                                      replyToUserId))
                    /\ emitted' = <<>>
    /\ UNCHANGED <<now, projects, projectMembers, messages, sockets, typingUsers,
                   timers>>

\* SendMembership trusting the join: membership is not verified again
SendMembership_NoRecheck(h, ok) ==
    LET r == inflight[h] IN
    /\ r.pc = "send_member"
    /\ IF ~ok
       THEN /\ emitted' = <<EmitError(r.conn, "Failed to send message")>>
            /\ inflight' = Finish(h)
       ELSE /\ emitted' = <<>>
            /\ inflight' = Resume(h, IF r.messageId # NullId
                                     THEN "send_reply" ELSE "send_insert")
    /\ UNCHANGED admitted
    /\ UNCHANGED <<now, projects, projectMembers, messages, sockets,
                   userMessageRateLimit, typingUsers, timers>>

\* the membership query of a send completes
SendMembership(h, ok) ==
    LET r == inflight[h] IN
    /\ r.pc = "send_member"
    /\ IF ~ok
       THEN /\ emitted' = <<EmitError(r.conn, "Failed to send message")>>
            /\ inflight' = Finish(h)
       ELSE IF ~isProjectMember(r.projectId, r.userId)
       THEN /\ emitted' = <<EmitError(r.conn,
                         "You must be a project member to send messages")>>
            /\ inflight' = Finish(h)
       ELSE /\ emitted' = <<>>
            /\ inflight' = Resume(h, IF r.messageId # NullId
                                     THEN "send_reply" ELSE "send_insert")
    /\ UNCHANGED admitted
    /\ UNCHANGED <<now, projects, projectMembers, messages, sockets,
                   userMessageRateLimit, typingUsers, timers>>

\* the lookup of the replied-to message completes
SendReplyLookup(h, ok) ==
    LET r == inflight[h]
        replyToMessage == SelectLiveById(r.messageId)
    IN
    /\ r.pc = "send_reply"
    /\ IF ~ok
       THEN /\ emitted' = <<EmitError(r.conn, "Failed to send message")>>
            /\ inflight' = Finish(h)
       ELSE /\ emitted' = <<>>
            /\ inflight' =
                 IF replyToMessage # NoRow
                 THEN [inflight EXCEPT
                         ![h].pc = "send_insert",
                         ![h].replyToUserName = replyToMessage.senderName,
                         ![h].replyToMessageContent =
                             replyToMessage.messageContent]
                 ELSE Resume(h, "send_insert")
    /\ UNCHANGED admitted
    /\ UNCHANGED <<now, projects, projectMembers, messages, sockets,
                   userMessageRateLimit, typingUsers, timers>>

\* the INSERT completes
SendInsert(h, ok) ==
    LET r == inflight[h]
        lastID == Len(messages) + 1
    IN
    /\ r.pc = "send_insert"
    /\ ok => CanInsert
    /\ IF ~ok
       THEN /\ emitted' = <<EmitError(r.conn, "Failed to send message")>>
            /\ inflight' = Finish(h)
            /\ UNCHANGED messages
       ELSE /\ messages' = Append(messages,
                 NewRow(lastID, r.projectId, r.userId, r.userName, r.content,
                        r.messageId, r.replyToUserId, r.replyToUserName,
                        r.replyToMessageContent))
            /\ inflight' = [inflight EXCEPT ![h].pc = "send_fetch",
                                            ![h].lastID = lastID]
            /\ emitted' = <<>>
    /\ UNCHANGED admitted
    /\ UNCHANGED <<now, projects, projectMembers, sockets, userMessageRateLimit,
                   typingUsers, timers>>

\* SendFetch broadcasting with socket.to(room): the sender is left out
SendFetch_ExcludeSender(h, ok) ==
    LET r == inflight[h]
        cleared == ClearTypingIndicator(typingUsers, timers, r.projectId,
                                        r.userId)
    IN
    /\ r.pc = "send_fetch"
    /\ inflight' = Finish(h)
    /\ IF ~ok
       THEN /\ emitted' = <<>>
            /\ UNCHANGED <<typingUsers, timers>>
       ELSE /\ emitted' = <<Event("new-message", r.conn,
                                  Room(r.projectId) \ {r.conn}, "", NullId,
                                  NullName, r.lastID, SelectById(r.lastID))>>
                            \o cleared.events
            /\ typingUsers' = cleared.typing
            /\ timers' = cleared.timers
    /\ UNCHANGED admitted
    /\ UNCHANGED <<now, projects, projectMembers, messages, sockets,
                   userMessageRateLimit>>

\* SendFetch without the clearTypingIndicator after the broadcast
SendFetch_NoClear(h, ok) ==
    LET r == inflight[h] IN
    /\ r.pc = "send_fetch"
    /\ inflight' = Finish(h)
    /\ emitted' = IF ~ok THEN <<>>
                  ELSE <<EmitRoom("new-message", r.conn, r.projectId,
                                  NullId, NullName, r.lastID,
                                  SelectById(r.lastID))>>
    /\ UNCHANGED admitted
    /\ UNCHANGED <<now, projects, projectMembers, messages, sockets,
                   userMessageRateLimit, typingUsers, timers>>

\* the fetch of the created row completes: broadcast, clear typing
SendFetch(h, ok) ==
    LET r == inflight[h]
        cleared == ClearTypingIndicator(typingUsers, timers, r.projectId,
                                        r.userId)
    IN
    /\ r.pc = "send_fetch"
    /\ inflight' = Finish(h)
    /\ IF ~ok
       THEN /\ emitted' = <<>>
            /\ UNCHANGED <<typingUsers, timers>>
       ELSE /\ emitted' = <<EmitRoom("new-message", r.conn, r.projectId,
                                     NullId, NullName, r.lastID,
                                     SelectById(r.lastID))>>
                            \o cleared.events
            /\ typingUsers' = cleared.typing
            /\ timers' = cleared.timers
    /\ UNCHANGED admitted
    /\ UNCHANGED <<now, projects, projectMembers, messages, sockets,
                   userMessageRateLimit>>

\* ------------------------------------------------------ typing, stop-typing
\* setTimeout(() => clearTypingIndicator(projectId, userId), 3000)
SetTimeout(ts, handle, projectId, userId) ==
    ts \cup {[id |-> handle, projectId |-> projectId, userId |-> userId,
              due |-> now + TYPING_TIMEOUT]}

Typing(c, projectId, userId, userName) ==
    LET cleared == ClearTypingIndicator(typingUsers, timers, projectId,
                                        userId)
        timeout == FreshTimer
    IN
    /\ Connected(c)
    /\ timers' = SetTimeout(cleared.timers, timeout, projectId, userId)
    /\ typingUsers' = [cleared.typing EXCEPT
                         ![<<projectId, userId>>] = timeout]
    /\ emitted' = cleared.events
                    \o <<EmitOthers("user-typing", c, projectId, userId,
                                    userName)>>
    /\ UNCHANGED admitted
    /\ UNCHANGED <<now, projects, projectMembers, messages, sockets,
                   userMessageRateLimit, inflight>>

StopTyping(c, projectId, userId) ==
    LET cleared == ClearTypingIndicator(typingUsers, timers, projectId,
                                        userId)
    IN
    /\ Connected(c)
    /\ typingUsers' = cleared.typing
    /\ timers' = cleared.timers
    /\ emitted' = cleared.events
    /\ UNCHANGED admitted
    /\ UNCHANGED <<now, projects, projectMembers, messages, sockets,
                   userMessageRateLimit, inflight>>

\* the timer callback running without clearTypingIndicator
TimerFire_Lost(t) ==
    /\ t \in timers
    /\ now >= t.due
    /\ timers' = timers \ {t}
    /\ emitted' = <<>>
    /\ UNCHANGED admitted
    /\ UNCHANGED <<now, projects, projectMembers, messages, sockets,
                   userMessageRateLimit, typingUsers, inflight>>

\* a pending timer comes due and runs its callback
TimerFire(t) ==
    LET cleared == ClearTypingIndicator(typingUsers, timers \ {t},
                                        t.projectId, t.userId)
    IN
    /\ t \in timers
    /\ now >= t.due
    /\ typingUsers' = cleared.typing
    /\ timers' = cleared.timers
    /\ emitted' = cleared.events
    /\ UNCHANGED admitted
    /\ UNCHANGED <<now, projects, projectMembers, messages, sockets,
                   userMessageRateLimit, inflight>>

\* ------------------------------------------------------------ edit-message
\* the ownership test left out
NotOwner_Never(message, userId) == FALSE

\* message.senderId != userId
NotOwner(message, userId) == message.senderId # userId

\* the handler up to the await of the lookup: validation of the content
EditMessage(c, messageId, userId, messageContent) ==
    /\ Connected(c)
    /\ ~IsBlank(messageContent) => HasFreeSlot
    /\ IF IsBlank(messageContent)
       THEN /\ emitted' = <<EmitError(c, "Message cannot be empty")>>
            /\ UNCHANGED inflight
       ELSE /\ inflight' = Suspend(Handler("edit", "edit_get", c, NullId,
                                  userId, NullName, messageContent,
                                  messageId, NullId))
            /\ emitted' = <<>>
    /\ UNCHANGED admitted
    /\ UNCHANGED <<now, projects, projectMembers, messages, sockets,
                   userMessageRateLimit, typingUsers, timers>>

\* the lookup of the message to edit completes
EditGet(h, ok) ==
    LET r == inflight[h]
        message == SelectLiveById(r.messageId)
    IN
    /\ r.pc = "edit_get"
    /\ IF ~ok
       THEN /\ emitted' = <<EmitError(r.conn, "Failed to edit message")>>
            /\ inflight' = Finish(h)
       ELSE IF message = NoRow
       THEN /\ emitted' = <<EmitError(r.conn, "Message not found")>>
            /\ inflight' = Finish(h)
       ELSE IF NotOwner(message, r.userId)
       THEN /\ emitted' = <<EmitError(r.conn,
                              "You can only edit your own messages")>>
            /\ inflight' = Finish(h)
       ELSE /\ emitted' = <<>>
            /\ inflight' = [inflight EXCEPT
                              ![h].pc = "edit_update",
                              ![h].projectId = message.projectId]
    /\ UNCHANGED admitted
    /\ UNCHANGED <<now, projects, projectMembers, messages, sockets,
                   userMessageRateLimit, typingUsers, timers>>

\* the UPDATE of an edit leaving editedAt as it was
UpdateContent_KeepEditedAt(id, messageContent) ==
    IF id \in 1 .. Len(messages)
    THEN [messages EXCEPT ![id].messageContent = messageContent,
                          ![id].updatedAt = CurrentTimestamp]
    ELSE messages

\* the UPDATE of an edit rewriting the snapshot of the replies to the row too
UpdateContent_Propagate(id, messageContent) ==
    IF id \in 1 .. Len(messages)
    THEN [i \in 1 .. Len(messages) |->
            IF i = id
            THEN [messages[i] EXCEPT !.messageContent = messageContent,
                                     !.editedAt = CurrentTimestamp,
                                     !.updatedAt = CurrentTimestamp]
            ELSE IF messages[i].replyToMessageId = id
            THEN [messages[i] EXCEPT !.replyToMessageContent = messageContent]
            ELSE messages[i]]
    ELSE messages

\* UPDATE ChatMessages SET messageContent = ?, editedAt, updatedAt WHERE id = ?
UpdateContent(id, messageContent) ==
    IF id \in 1 .. Len(messages)
    THEN [messages EXCEPT ![id].messageContent = messageContent,
                          ![id].editedAt = CurrentTimestamp,
                          ![id].updatedAt = CurrentTimestamp]
    ELSE messages

\* EditUpdate going on to the fetch and the broadcast when the UPDATE failed
EditUpdate_IgnoreError(h, ok) ==
    LET r == inflight[h] IN
    /\ r.pc = "edit_update"
    /\ messages' = IF ok THEN UpdateContent(r.messageId, r.content)
                   ELSE messages
    /\ inflight' = Resume(h, "edit_fetch")
    /\ emitted' = <<>>
    /\ UNCHANGED admitted
    /\ UNCHANGED <<now, projects, projectMembers, sockets, userMessageRateLimit,
                   typingUsers, timers>>

\* the UPDATE of an edit completes
EditUpdate(h, ok) ==
    LET r == inflight[h] IN
    /\ r.pc = "edit_update"
    /\ IF ~ok
       THEN /\ emitted' = <<EmitError(r.conn, "Failed to edit message")>>
            /\ inflight' = Finish(h)
            /\ UNCHANGED messages
       ELSE /\ messages' = UpdateContent(r.messageId, r.content)
            /\ inflight' = Resume(h, "edit_fetch")
            /\ emitted' = <<>>
    /\ UNCHANGED admitted
    /\ UNCHANGED <<now, projects, projectMembers, sockets, userMessageRateLimit,
                   typingUsers, timers>>

\* the fetch of the updated row completes: broadcast
EditFetch(h, ok) ==
    LET r == inflight[h] IN
    /\ r.pc = "edit_fetch"
    /\ inflight' = Finish(h)
    /\ emitted' = IF ~ok THEN <<>>
                  ELSE <<EmitRoom("message-edited", r.conn, r.projectId,
                                  NullId, NullName, r.messageId,
                                  SelectById(r.messageId))>>
    /\ UNCHANGED admitted
    /\ UNCHANGED <<now, projects, projectMembers, messages, sockets,
                   userMessageRateLimit, typingUsers, timers>>

\* ---------------------------------------------------------- delete-message
\* the handler up to the await of the lookup
DeleteMessage(c, messageId, userId) ==
    /\ Connected(c)
    /\ HasFreeSlot
    /\ inflight' = Suspend(Handler("delete", "delete_get", c, NullId, userId,
                                   NullName, Undefined, messageId, NullId))
    /\ emitted' = <<>>
    /\ UNCHANGED admitted
    /\ UNCHANGED <<now, projects, projectMembers, messages, sockets,
                   userMessageRateLimit, typingUsers, timers>>

\* the lookup of the message to delete completes
DeleteGet(h, ok) ==
    LET r == inflight[h]
        message == SelectLiveById(r.messageId)
    IN
    /\ r.pc = "delete_get"
    /\ IF ~ok
       THEN /\ emitted' = <<EmitError(r.conn, "Failed to delete message")>>
            /\ inflight' = Finish(h)
       ELSE IF message = NoRow
       THEN /\ emitted' = <<EmitError(r.conn, "Message not found")>>
            /\ inflight' = Finish(h)
       ELSE IF NotOwner(message, r.userId)
       THEN /\ emitted' = <<EmitError(r.conn,
                              "You can only delete your own messages")>>
            /\ inflight' = Finish(h)
       ELSE /\ emitted' = <<>>
            /\ inflight' = [inflight EXCEPT
                              ![h].pc = "delete_update",
                              ![h].projectId = message.projectId]
    /\ UNCHANGED admitted
    /\ UNCHANGED <<now, projects, projectMembers, messages, sockets,
                   userMessageRateLimit, typingUsers, timers>>

\* UPDATE ChatMessages SET isDeleted = 1, updatedAt = CURRENT_TIMESTAMP WHERE id = ?
SoftDelete(id) ==
    IF id \in 1 .. Len(messages)
    THEN [messages EXCEPT ![id].isDeleted = 1,
                          ![id].updatedAt = CurrentTimestamp]
    ELSE messages

\* the UPDATE of a delete completes: broadcast
DeleteUpdate(h, ok) ==
    LET r == inflight[h] IN
    /\ r.pc = "delete_update"
    /\ inflight' = Finish(h)
    /\ IF ~ok
       THEN /\ emitted' = <<EmitError(r.conn, "Failed to delete message")>>
            /\ UNCHANGED messages
       ELSE /\ messages' = SoftDelete(r.messageId)
            /\ emitted' = <<EmitRoom("message-deleted", r.conn, r.projectId,
                                     NullId, NullName, r.messageId, NoRow)>>
    /\ UNCHANGED admitted
    /\ UNCHANGED <<now, projects, projectMembers, sockets, userMessageRateLimit,
                   typingUsers, timers>>

\* -------------------------------------------------------------- disconnect
\* The socket has left its rooms when the disconnect handler runs: events
\* sent to a room during the handler do not reach it.
WithoutSocket(es, c) == [i \in 1 .. Len(es) |-> [es[i] EXCEPT !.to = @ \ {c}]]

\* the disconnect handler without the test of the stamped identity
Disconnect_NoStampCheck(c) ==
    LET s == sockets[c]
        cleared == ClearTypingIndicator(typingUsers, timers, s.projectId,
                                        s.userId)
    IN
    /\ Connected(c)
    /\ sockets' = [sockets EXCEPT ![c].status = "disconnected",
                                  ![c].rooms = {}]
    /\ typingUsers' = cleared.typing
    /\ timers' = cleared.timers
    /\ emitted' = WithoutSocket(cleared.events, c)
                    \o <<EmitOthers("user-left", c, s.projectId, s.userId,
                                    s.userName)>>
    /\ UNCHANGED admitted
    /\ UNCHANGED <<now, projects, projectMembers, messages, userMessageRateLimit,
                   inflight>>

Disconnect(c) ==
    LET s == sockets[c]
        cleared == IF s.projectId # NullId /\ s.userId # NullId
                   THEN ClearTypingIndicator(typingUsers, timers,
                                             s.projectId, s.userId)
                   ELSE [typing |-> typingUsers, timers |-> timers,
                         events |-> <<>>]
        left == [sockets EXCEPT ![c].status = "disconnected",
                                ![c].rooms = {}]
    IN
    /\ Connected(c)
    /\ sockets' = left
    /\ typingUsers' = cleared.typing
    /\ timers' = cleared.timers
    /\ emitted' =
         IF s.projectId # NullId /\ s.userId # NullId
         THEN WithoutSocket(cleared.events, c)
                \o <<EmitOthers("user-left", c, s.projectId, s.userId,
                                s.userName)>>
         ELSE <<>>
    /\ UNCHANGED admitted
    /\ UNCHANGED <<now, projects, projectMembers, messages, userMessageRateLimit,
                   inflight>>

\* ---------------------------------------------------------- history pages
RECURSIVE SelectLive_IncludeDeleted(_, _)
\* the history query without `AND isDeleted = 0`
SelectLive_IncludeDeleted(rs, projectId) ==
    IF rs = <<>> THEN <<>>
    ELSE IF Head(rs).projectId = projectId
         THEN <<Head(rs)>> \o SelectLive_IncludeDeleted(Tail(rs), projectId)
         ELSE SelectLive_IncludeDeleted(Tail(rs), projectId)

RECURSIVE SelectLive(_, _)
\* the rows of rs that belong to projectId and are not soft-deleted
SelectLive(rs, projectId) ==
    IF rs = <<>> THEN <<>>
    ELSE IF Head(rs).projectId = projectId /\ Head(rs).isDeleted = 0
         THEN <<Head(rs)>> \o SelectLive(Tail(rs), projectId)
         ELSE SelectLive(Tail(rs), projectId)

Min(a, b) == IF a <= b THEN a ELSE b

RECURSIVE InsertByCreatedAt(_, _)
\* row put into a list ordered by createdAt, after the rows not younger
InsertByCreatedAt(sorted, row) ==
    IF sorted = <<>> THEN <<row>>
    ELSE IF Head(sorted).createdAt <= row.createdAt
         THEN <<Head(sorted)>> \o InsertByCreatedAt(Tail(sorted), row)
         ELSE <<row>> \o sorted

RECURSIVE OrderByCreatedAt(_)
\* ORDER BY createdAt ASC; rows of the same second stay in rowid order
OrderByCreatedAt(rs) ==
    IF rs = <<>> THEN <<>>
    ELSE InsertByCreatedAt(OrderByCreatedAt(SubSeq(rs, 1, Len(rs) - 1)),
                           rs[Len(rs)])

\* SELECT * FROM ChatMessages WHERE projectId = ? AND isDeleted = 0
\* ORDER BY createdAt ASC LIMIT ? OFFSET ?
ListPage(projectId, limit, offset) ==
    LET live == OrderByCreatedAt(SelectLive(messages, projectId)) IN
    SubSeq(live, offset + 1, Min(offset + limit, Len(live)))

\* ---------------------------------------------------------- HTTP: history
\* res.status(status).json({ message, data })
Respond(status, message, data) ==
    [ev |-> "response", from |-> 0, to |-> {}, status |-> status,
     msg |-> message, data |-> data]

NoData == <<>>

\* getChatHistory up to `await isProjectMember(projectId, userId)`
GetChatHistory(projectId, userId, page, limit) ==
    /\ userId # NullId => HasFreeSlot
    /\ IF userId = NullId
       THEN /\ emitted' = <<Respond(400, "User ID is required", NoData)>>
            /\ UNCHANGED inflight
       ELSE /\ inflight' = Suspend([Handler("history", "hist_member", 0,
                                      projectId, userId, NullName, Undefined,
                                      NullId, NullId)
                                      EXCEPT !.page = page, !.limit = limit])
            /\ emitted' = <<>>
    /\ UNCHANGED admitted
    /\ UNCHANGED <<now, projects, projectMembers, messages, sockets,
                   userMessageRateLimit, typingUsers, timers>>

\* getChatHistory answering a requester who is not a member with the page
HistMembership_NoCheck(h, ok) ==
    LET r == inflight[h] IN
    /\ r.pc = "hist_member"
    /\ IF ~ok
       THEN /\ emitted' = <<Respond(500, "Internal server error", NoData)>>
            /\ inflight' = Finish(h)
       ELSE /\ emitted' = <<>>
            /\ inflight' = Resume(h, "hist_count")
    /\ UNCHANGED admitted
    /\ UNCHANGED <<now, projects, projectMembers, messages, sockets,
                   userMessageRateLimit, typingUsers, timers>>

\* the membership query of getChatHistory completes
HistMembership(h, ok) ==
    LET r == inflight[h] IN
    /\ r.pc = "hist_member"
    /\ IF ~ok
       THEN /\ emitted' = <<Respond(500, "Internal server error", NoData)>>
            /\ inflight' = Finish(h)
       ELSE IF ~isProjectMember(r.projectId, r.userId)
       THEN /\ emitted' = <<Respond(403,
                     "You must be a project member to view chat", NoData)>>
            /\ inflight' = Finish(h)
       ELSE /\ emitted' = <<>>
            /\ inflight' = Resume(h, "hist_count")
    /\ UNCHANGED admitted
    /\ UNCHANGED <<now, projects, projectMembers, messages, sockets,
                   userMessageRateLimit, typingUsers, timers>>

\* SELECT COUNT(*) ... WHERE projectId = ? AND isDeleted = 0 completes
HistCount(h, ok) ==
    LET r == inflight[h] IN
    /\ r.pc = "hist_count"
    /\ IF ~ok
       THEN /\ emitted' = <<Respond(500, "Failed to count messages", NoData)>>
            /\ inflight' = Finish(h)
       ELSE /\ emitted' = <<>>
            /\ inflight' = [inflight EXCEPT
                              ![h].pc = "hist_select",
                              ![h].total =
                                  Len(SelectLive(messages, r.projectId))]
    /\ UNCHANGED admitted
    /\ UNCHANGED <<now, projects, projectMembers, messages, sockets,
                   userMessageRateLimit, typingUsers, timers>>

\* Math.ceil(total / limit)
TotalPages(total, limit) == (total + limit - 1) \div limit

\* the SELECT of the page completes: the response
HistSelect(h, ok) ==
    LET r == inflight[h]
        offset == (r.page - 1) * r.limit
    IN
    /\ r.pc = "hist_select"
    /\ inflight' = Finish(h)
    /\ emitted' =
         IF ~ok
         THEN <<Respond(500, "Failed to fetch messages", NoData)>>
         ELSE <<Respond(200, "",
                        [messages |-> ListPage(r.projectId, r.limit, offset),
                         page |-> r.page, limit |-> r.limit,
                         total |-> r.total,
                         totalPages |-> TotalPages(r.total, r.limit)])>>
    /\ UNCHANGED admitted
    /\ UNCHANGED <<now, projects, projectMembers, messages, sockets,
                   userMessageRateLimit, typingUsers, timers>>

\* ------------------------------------------------------- HTTP: sendMessage
\* a required field of the body is missing or empty
Missing(projectId, senderId, senderName, messageContent) ==
    \/ projectId = NullId
    \/ senderId = NullId
    \/ senderName = NullName
    \/ messageContent = Undefined
    \/ messageContent = <<>>

\* sendMessage up to `await isProjectMember(projectId, senderId)`
HttpSendMessage(projectId, senderId, senderName, messageContent, replyToMessageId, replyToUserId) ==
    LET missing == Missing(projectId, senderId, senderName, messageContent)
        rejected == missing \/ Trim(messageContent) = <<>>
    IN
    /\ ~rejected => HasFreeSlot
    /\ IF missing
       THEN /\ emitted' = <<Respond(400,
                 "Project ID, sender ID, sender name, and message content are required",
                 NoData)>>
            /\ UNCHANGED inflight
       ELSE IF Trim(messageContent) = <<>>
       THEN /\ emitted' = <<Respond(400, "Message cannot be empty", NoData)>>
            /\ UNCHANGED inflight
       ELSE /\ inflight' = Suspend(Handler("http_send", "hsend_member", 0,
                                  projectId, senderId, senderName,
                                  messageContent, replyToMessageId,
                                  replyToUserId))
            /\ emitted' = <<>>
    /\ UNCHANGED admitted
    /\ UNCHANGED <<now, projects, projectMembers, messages, sockets,
                   userMessageRateLimit, typingUsers, timers>>

\* the membership query of sendMessage completes
HttpSendMembership(h, ok) ==
    LET r == inflight[h] IN
    /\ r.pc = "hsend_member"
    /\ IF ~ok
       THEN /\ emitted' = <<Respond(500, "Internal server error", NoData)>>
            /\ inflight' = Finish(h)
       ELSE IF ~isProjectMember(r.projectId, r.userId)
       THEN /\ emitted' = <<Respond(403,
                     "You must be a project member to send messages", NoData)>>
            /\ inflight' = Finish(h)
       ELSE /\ emitted' = <<>>
            /\ inflight' = Resume(h, IF r.messageId # NullId
                                     THEN "hsend_reply" ELSE "hsend_insert")
    /\ UNCHANGED admitted
    /\ UNCHANGED <<now, projects, projectMembers, messages, sockets,
                   userMessageRateLimit, typingUsers, timers>>

\* the lookup of the replied-to message completes
HttpSendReplyLookup(h, ok) ==
    LET r == inflight[h]
        replyToMessage == SelectLiveById(r.messageId)
    IN
    /\ r.pc = "hsend_reply"
    /\ IF ~ok
       THEN /\ emitted' = <<Respond(500, "Internal server error", NoData)>>
            /\ inflight' = Finish(h)
       ELSE /\ emitted' = <<>>
            /\ inflight' =
                 IF replyToMessage # NoRow
                 THEN [inflight EXCEPT
                         ![h].pc = "hsend_insert",
                         ![h].replyToUserName = replyToMessage.senderName,
                         ![h].replyToMessageContent =
                             replyToMessage.messageContent]
                 ELSE Resume(h, "hsend_insert")
    /\ UNCHANGED admitted
    /\ UNCHANGED <<now, projects, projectMembers, messages, sockets,
                   userMessageRateLimit, typingUsers, timers>>

\* the INSERT of sendMessage completes
HttpSendInsert(h, ok) ==
    LET r == inflight[h]
        lastID == Len(messages) + 1
    IN
    /\ r.pc = "hsend_insert"
    /\ ok => CanInsert
    /\ IF ~ok
       THEN /\ emitted' = <<Respond(500, "Failed to send message", NoData)>>
            /\ inflight' = Finish(h)
            /\ UNCHANGED messages
       ELSE /\ messages' = Append(messages,
                 NewRow(lastID, r.projectId, r.userId, r.userName, r.content,
                        r.messageId, r.replyToUserId, r.replyToUserName,
                        r.replyToMessageContent))
            /\ inflight' = [inflight EXCEPT ![h].pc = "hsend_fetch",
                                            ![h].lastID = lastID]
            /\ emitted' = <<>>
    /\ UNCHANGED admitted
    /\ UNCHANGED <<now, projects, projectMembers, sockets, userMessageRateLimit,
                   typingUsers, timers>>

\* the fetch of the created row completes: the response
HttpSendFetch(h, ok) ==
    LET r == inflight[h] IN
    /\ r.pc = "hsend_fetch"
    /\ inflight' = Finish(h)
    /\ emitted' =
         IF ~ok
         THEN <<Respond(500, "Message sent but failed to fetch", NoData)>>
         ELSE <<Respond(201, "Message sent successfully",
                        SelectById(r.lastID))>>
    /\ UNCHANGED admitted
    /\ UNCHANGED <<now, projects, projectMembers, messages, sockets,
                   userMessageRateLimit, typingUsers, timers>>

\* ------------------------------------------------------- HTTP: editMessage
\* body validation without the trim
HttpRejectEdit_NoTrim(userId, messageContent) ==
    \/ userId = NullId
    \/ messageContent = Undefined
    \/ messageContent = <<>>

\* !userId || !messageContent, then !messageContent.trim()
HttpRejectEdit(userId, messageContent) ==
    \/ userId = NullId
    \/ messageContent = Undefined
    \/ messageContent = <<>>
    \/ Trim(messageContent) = <<>>

\* editMessage up to the await of the lookup
HttpEditMessage(messageId, userId, messageContent) ==
    /\ ~HttpRejectEdit(userId, messageContent) => HasFreeSlot
    /\ IF HttpRejectEdit(userId, messageContent)
       THEN /\ emitted' =
                 <<Respond(400,
                           IF userId = NullId \/ messageContent = Undefined
                                \/ messageContent = <<>>
                           THEN "User ID and message content are required"
                           ELSE "Message cannot be empty", NoData)>>
            /\ UNCHANGED inflight
       ELSE /\ inflight' = Suspend(Handler("http_edit", "hedit_get", 0,
                                  NullId, userId, NullName, messageContent,
                                  messageId, NullId))
            /\ emitted' = <<>>
    /\ UNCHANGED admitted
    /\ UNCHANGED <<now, projects, projectMembers, messages, sockets,
                   userMessageRateLimit, typingUsers, timers>>

\* the lookup of the message to edit completes
HttpEditGet(h, ok) ==
    LET r == inflight[h]
        message == SelectLiveById(r.messageId)
    IN
    /\ r.pc = "hedit_get"
    /\ IF ~ok
       THEN /\ emitted' = <<Respond(500, "Internal server error", NoData)>>
            /\ inflight' = Finish(h)
       ELSE IF message = NoRow
       THEN /\ emitted' = <<Respond(404, "Message not found", NoData)>>
            /\ inflight' = Finish(h)
       ELSE IF NotOwner(message, r.userId)
       THEN /\ emitted' = <<Respond(403,
                     "You can only edit your own messages", NoData)>>
            /\ inflight' = Finish(h)
       ELSE /\ emitted' = <<>>
            /\ inflight' = Resume(h, "hedit_update")
    /\ UNCHANGED admitted
    /\ UNCHANGED <<now, projects, projectMembers, messages, sockets,
                   userMessageRateLimit, typingUsers, timers>>

\* the UPDATE of editMessage completes
HttpEditUpdate(h, ok) ==
    LET r == inflight[h] IN
    /\ r.pc = "hedit_update"
    /\ IF ~ok
       THEN /\ emitted' = <<Respond(500, "Failed to edit message", NoData)>>
            /\ inflight' = Finish(h)
            /\ UNCHANGED messages
       ELSE /\ messages' = UpdateContent(r.messageId, r.content)
            /\ inflight' = Resume(h, "hedit_fetch")
            /\ emitted' = <<>>
    /\ UNCHANGED admitted
    /\ UNCHANGED <<now, projects, projectMembers, sockets, userMessageRateLimit,
                   typingUsers, timers>>

\* the fetch of the updated row completes: the response
HttpEditFetch(h, ok) ==
    LET r == inflight[h] IN
    /\ r.pc = "hedit_fetch"
    /\ inflight' = Finish(h)
    /\ emitted' =
         IF ~ok
         THEN <<Respond(500, "Message updated but failed to fetch", NoData)>>
         ELSE <<Respond(200, "Message edited successfully",
                        SelectById(r.messageId))>>
    /\ UNCHANGED admitted
    /\ UNCHANGED <<now, projects, projectMembers, messages, sockets,
                   userMessageRateLimit, typingUsers, timers>>

\* ----------------------------------------------------- HTTP: deleteMessage
\* deleteMessage up to the await of the lookup
HttpDeleteMessage(messageId, userId) ==
    /\ userId # NullId => HasFreeSlot
    /\ IF userId = NullId
       THEN /\ emitted' = <<Respond(400, "User ID is required", NoData)>>
            /\ UNCHANGED inflight
       ELSE /\ inflight' = Suspend(Handler("http_delete", "hdel_get", 0,
                                  NullId, userId, NullName, Undefined,
                                  messageId, NullId))
            /\ emitted' = <<>>
    /\ UNCHANGED admitted
    /\ UNCHANGED <<now, projects, projectMembers, messages, sockets,
                   userMessageRateLimit, typingUsers, timers>>

\* the lookup of the message to delete completes
HttpDeleteGet(h, ok) ==
    LET r == inflight[h]
        message == SelectLiveById(r.messageId)
    IN
    /\ r.pc = "hdel_get"
    /\ IF ~ok
       THEN /\ emitted' = <<Respond(500, "Internal server error", NoData)>>
            /\ inflight' = Finish(h)
       ELSE IF message = NoRow
       THEN /\ emitted' = <<Respond(404, "Message not found", NoData)>>
            /\ inflight' = Finish(h)
       ELSE IF NotOwner(message, r.userId)
       THEN /\ emitted' = <<Respond(403,
                     "You can only delete your own messages", NoData)>>
            /\ inflight' = Finish(h)
       ELSE /\ emitted' = <<>>
            /\ inflight' = Resume(h, "hdel_update")
    /\ UNCHANGED admitted
    /\ UNCHANGED <<now, projects, projectMembers, messages, sockets,
                   userMessageRateLimit, typingUsers, timers>>

\* the UPDATE of deleteMessage completes: the response
HttpDeleteUpdate(h, ok) ==
    LET r == inflight[h] IN
    /\ r.pc = "hdel_update"
    /\ inflight' = Finish(h)
    /\ IF ~ok
       THEN /\ emitted' = <<Respond(500, "Failed to delete message", NoData)>>
            /\ UNCHANGED messages
       ELSE /\ messages' = SoftDelete(r.messageId)
            /\ emitted' = <<Respond(200, "Message deleted successfully",
                                    NoData)>>
    /\ UNCHANGED admitted
    /\ UNCHANGED <<now, projects, projectMembers, sockets, userMessageRateLimit,
                   typingUsers, timers>>

\* ----------------------------------------------- HTTP: updateMessageStatus
\* ['sent', 'delivered', 'read']
Statuses == {"sent", "delivered", "read"}

\* the status UPDATE clearing the soft-delete flag as well
SetStatus_ClearsFlag(id, status) ==
    IF id \in 1 .. Len(messages)
    THEN [messages EXCEPT ![id].messageStatus = status,
                          ![id].isDeleted = 0,
                          ![id].updatedAt = CurrentTimestamp]
    ELSE messages

\* UPDATE ChatMessages SET messageStatus = ?, updatedAt = CURRENT_TIMESTAMP WHERE id = ?
SetStatus(id, status) ==
    IF id \in 1 .. Len(messages)
    THEN [messages EXCEPT ![id].messageStatus = status,
                          ![id].updatedAt = CurrentTimestamp]
    ELSE messages

\* updateMessageStatus up to db.run; status NullName is a body without one
UpdateMessageStatus(messageId, status) ==
    /\ status \in Statuses => HasFreeSlot
    /\ IF status = NullName \/ status \notin Statuses
       THEN /\ emitted' = <<Respond(400,
                     "Valid status is required (sent, delivered, read)",
                     NoData)>>
            /\ UNCHANGED inflight
       ELSE /\ inflight' = Suspend([Handler("http_status", "status_update",
                                  0, NullId, NullId, NullName, Undefined,
                                  messageId, NullId)
                                     EXCEPT !.status = status])
            /\ emitted' = <<>>
    /\ UNCHANGED admitted
    /\ UNCHANGED <<now, projects, projectMembers, messages, sockets,
                   userMessageRateLimit, typingUsers, timers>>

\* the UPDATE of updateMessageStatus completes: the response
StatusUpdate(h, ok) ==
    LET r == inflight[h] IN
    /\ r.pc = "status_update"
    /\ inflight' = Finish(h)
    /\ IF ~ok
       THEN /\ emitted' = <<Respond(500, "Failed to update message status",
                                    NoData)>>
            /\ UNCHANGED messages
       ELSE /\ messages' = SetStatus(r.messageId, r.status)
            /\ emitted' = <<Respond(200,
                     "Message status updated successfully", NoData)>>
    /\ UNCHANGED admitted
    /\ UNCHANGED <<now, projects, projectMembers, sockets, userMessageRateLimit,
                   typingUsers, timers>>

\* ------------------------------------------------------------------- Next
\* the display name a client sends along with a user id
UserName(u) == IF u = 1 THEN "ann" ELSE "bob"
\* message ids of payloads: every id the store can hold, and one it cannot
MessageIds == 1 .. (MaxMessages + 1)
\* the id of the first row, and the one id the store cannot hold
EndIds == {1, MaxMessages + 1}

\* Join and send: two connections join project 1 as user 1, the first one
\* also project 2 as user 2; the first connection sends as user 1 to either
\* project, at most MaxMessages times, each send received while others may
\* be suspended at a store call.
Next ==
    \/ \E c \in Conns : Connect(c)
    \/ \E c \in Conns : JoinProjectChat(c, 1, 1, UserName(1))
    \/ JoinProjectChat(1, 2, 2, UserName(2))
    \/ \E h \in Slots, ok \in BOOLEAN : JoinMembership(h, ok)
    \/ \E p \in Projects, m \in Contents :
          /\ userMessageRateLimit[1].count < MaxMessages
          /\ SendMessage(1, p, 1, UserName(1), m, NullId, NullId)
          /\ UNCHANGED admitted
    \/ \E h \in Slots, ok \in BOOLEAN : SendMembership(h, ok)
    \/ \E h \in Slots, ok \in BOOLEAN : SendInsert(h, ok)
    \/ \E h \in Slots, ok \in BOOLEAN : SendFetch(h, ok)

Spec == Init /\ [][Next]_vars

\* Sends while memberships change: project 1 is deleted by its author and
\* user 2 asks to join it and is approved, the store calls of the two
\* requests in any order, while a connection joins the room of project 1 and
\* sends to it, as either user, once each, and a second connection joins
\* that room as user 1.
NextMember ==
    \/ \E c \in Conns : Connect(c)
    \/ DeleteProject(1, 1)
    \/ \E h \in Slots, ok \in BOOLEAN : DeleteProjectCheck(h, ok)
    \/ \E h \in Slots, ok \in BOOLEAN : DeleteProjectMembers(h, ok)
    \/ \E h \in Slots, ok \in BOOLEAN : DeleteProjectTasks(h, ok)
    \/ \E h \in Slots, ok \in BOOLEAN : DeleteProjectRow(h, ok)
    \/ ApproveRequest(1, 2)
    \/ JoinProject(1, 2)
    \/ \E h \in Slots, ok \in BOOLEAN : JoinProjectFind(h, ok)
    \/ \E h \in Slots, ok \in BOOLEAN : JoinProjectCheck(h, ok)
    \/ \E h \in Slots, ok \in BOOLEAN : JoinProjectInsert(h, ok)
    \/ \E c \in Conns : JoinProjectChat(c, 1, 1, UserName(1))
    \/ \E h \in Slots, ok \in BOOLEAN : JoinMembership(h, ok)
    \/ \E u \in Users :
          /\ userMessageRateLimit[u] = NoWindow
          /\ SendMessage(1, 1, u, UserName(u), FirstContent, NullId, NullId)
          /\ UNCHANGED admitted
    \/ \E h \in Slots, ok \in BOOLEAN : SendMembership(h, ok)
    \/ \E h \in Slots, ok \in BOOLEAN : SendInsert(h, ok)
    \/ \E h \in Slots, ok \in BOOLEAN : SendFetch(h, ok)

SpecMember == Init /\ [][NextMember]_vars

\* Joins while memberships change: user 2 asks to join project 1 and is
\* approved or rejected, and the project is deleted, by its author or
\* refused to the other user, the store calls of these requests in any
\* order, while one connection asks for the rooms of both projects as either
\* user and another one for the room of project 1.
NextJoin ==
    \/ \E c \in Conns : Connect(c)
    \/ \E u \in Users : DeleteProject(1, u)
    \/ \E h \in Slots, ok \in BOOLEAN : DeleteProjectCheck(h, ok)
    \/ \E h \in Slots, ok \in BOOLEAN : DeleteProjectMembers(h, ok)
    \/ \E h \in Slots, ok \in BOOLEAN : DeleteProjectTasks(h, ok)
    \/ \E h \in Slots, ok \in BOOLEAN : DeleteProjectRow(h, ok)
    \/ ApproveRequest(1, 2)
    \/ RejectRequest(1, 2)
    \/ JoinProject(1, 2)
    \/ \E h \in Slots, ok \in BOOLEAN : JoinProjectFind(h, ok)
    \/ \E h \in Slots, ok \in BOOLEAN : JoinProjectCheck(h, ok)
    \/ \E h \in Slots, ok \in BOOLEAN : JoinProjectInsert(h, ok)
    \/ \E p \in Projects, u \in Users :
          JoinProjectChat(1, p, u, UserName(u))
    \/ JoinProjectChat(2, 1, 1, UserName(1))
    \/ \E h \in Slots, ok \in BOOLEAN : JoinMembership(h, ok)

SpecJoin == Init /\ [][NextJoin]_vars

\* Edit and delete on a store that already holds a message (the table
\* outlives the process): a message of user 1 in project 1, written at
\* second 0; the process starts one clock step later.  Edits and deletes of
\* that message and of an id the store does not hold, as its sender and as
\* the other user, each received while others may be suspended at a store
\* call; joins of a member and of a user awaiting approval; one send to a
\* project the sender is no member of.
StoredMessages ==
    <<[NewRow(1, 1, 1, UserName(1), <<"h", SP>>, NullId, NullId, NullName,
              NullText) EXCEPT !.createdAt = 0, !.updatedAt = 0]>>

InitStored ==
    /\ now = TickMs
    /\ projects = Projects
    /\ projectMembers = InitMembers
    /\ messages = StoredMessages
    /\ sockets = [c \in Conns |-> NoSocket]
    /\ userMessageRateLimit = [u \in Users |-> NoWindow]
    /\ typingUsers = [k \in Projects \X Users |-> NoTimer]
    /\ timers = {}
    /\ inflight = [h \in Slots |-> Idle]
    /\ emitted = <<>>
    /\ admitted = [u \in Users |-> <<>>]

NextMutate ==
    \/ \E c \in Conns : Connect(c)
    \/ \E c \in Conns, u \in Users :
          JoinProjectChat(c, 1, u, UserName(u))
    \/ \E h \in Slots, ok \in BOOLEAN : JoinMembership(h, ok)
    \/ \E m \in {<<SP>>, FirstContent} :
          /\ userMessageRateLimit[1] = NoWindow
          /\ SendMessage(1, 2, 1, UserName(1), m, NullId, NullId)
          /\ UNCHANGED admitted
    \/ \E h \in Slots, ok \in BOOLEAN : SendMembership(h, ok)
    \/ \E i \in EndIds, u \in Users, m \in NewContents :
          EditMessage(1, i, u, m)
    \/ \E h \in Slots, ok \in BOOLEAN : EditGet(h, ok)
    \/ \E h \in Slots, ok \in BOOLEAN : EditUpdate(h, ok)
    \/ \E h \in Slots, ok \in BOOLEAN : EditFetch(h, ok)
    \/ \E i \in EndIds, u \in Users : DeleteMessage(1, i, u)
    \/ \E h \in Slots, ok \in BOOLEAN : DeleteGet(h, ok)
    \/ \E h \in Slots, ok \in BOOLEAN : DeleteUpdate(h, ok)

SpecMutate == InitStored /\ [][NextMutate]_vars

\* The rate limiter over time: one connection, more than one rate window of
\* clock steps; user 2, who awaits approval, sends without bound, user 1,
\* a member, opens a window with one send.
NextRate ==
    \/ Connect(1)
    \/ Tick(MaxTicks)
    \/ \E m \in {<<SP>>, FirstContent} :
          /\ SendMessage(1, 1, 2, UserName(2), m, NullId, NullId)
          /\ UNCHANGED admitted
    \/ \E m \in {<<SP>>, FirstContent} :
          /\ userMessageRateLimit[1] = NoWindow
          /\ SendMessage(1, 1, 1, UserName(1), m, NullId, NullId)
          /\ UNCHANGED admitted
    \/ \E h \in Slots, ok \in BOOLEAN : SendMembership(h, ok)
    \/ \E h \in Slots, ok \in BOOLEAN : SendInsert(h, ok)
    \/ \E h \in Slots, ok \in BOOLEAN : SendFetch(h, ok)

SpecRate == Init /\ [][NextRate]_vars

\* Typing presence: signals, expiry, and the clears by stop-typing and
\* disconnect.
NextTyping ==
    \/ \E c \in Conns : Connect(c)
    \/ \E c \in Conns : Disconnect(c)
    \/ Tick(TypingTicks)
    \/ \E c \in Conns :
          JoinProjectChat(c, 1, 1, UserName(1))
    \/ \E h \in Slots, ok \in BOOLEAN : JoinMembership(h, ok)
    \/ \E c \in Conns, p \in Projects : Typing(c, p, 1, UserName(1))
    \/ \E c \in Conns, p \in Projects : StopTyping(c, p, 1)
    \/ \E t \in timers : TimerFire(t)

SpecTyping == Init /\ [][NextTyping]_vars

\* History requests over HTTP next to the socket handlers that change what
\* a page holds, on a store that holds a message: requests for either
\* project by a member (pages 1 and 2 of project 1, page 2 with limit 1),
\* by a user who is not one and without a user id, a send, the soft delete
\* of the stored message and the deletion of project 1 by its author.
PageLimits == 1 .. 2
Pages == 1 .. 2

NextHttp ==
    \/ Connect(1)
    \/ DeleteProject(1, 1)
    \/ \E h \in Slots, ok \in BOOLEAN : DeleteProjectCheck(h, ok)
    \/ \E h \in Slots, ok \in BOOLEAN : DeleteProjectMembers(h, ok)
    \/ \E h \in Slots, ok \in BOOLEAN : DeleteProjectTasks(h, ok)
    \/ \E h \in Slots, ok \in BOOLEAN : DeleteProjectRow(h, ok)
    \/ \E q \in (Pages \X PageLimits) \ {<<2, 2>>} :
          GetChatHistory(1, 1, q[1], q[2])
    \/ \E u \in {NullId, 2} : GetChatHistory(1, u, 1, 1)
    \/ GetChatHistory(2, 2, 1, 1)
    \/ \E h \in Slots, ok \in BOOLEAN : HistMembership(h, ok)
    \/ \E h \in Slots, ok \in BOOLEAN : HistCount(h, ok)
    \/ \E h \in Slots, ok \in BOOLEAN : HistSelect(h, ok)
    \/ /\ userMessageRateLimit[1] = NoWindow
       /\ SendMessage(1, 1, 1, UserName(1), FirstContent, NullId, NullId)
       /\ UNCHANGED admitted
    \/ \E h \in Slots, ok \in BOOLEAN : SendMembership(h, ok)
    \/ \E h \in Slots, ok \in BOOLEAN : SendInsert(h, ok)
    \/ \E h \in Slots, ok \in BOOLEAN : SendFetch(h, ok)
    \/ DeleteMessage(1, 1, 1)
    \/ \E h \in Slots, ok \in BOOLEAN : DeleteGet(h, ok)
    \/ \E h \in Slots, ok \in BOOLEAN : DeleteUpdate(h, ok)

SpecHttp == InitStored /\ [][NextHttp]_vars

\* Every writer of message content, on a store that holds a message: sends
\* and edits over the socket and over HTTP, with present, missing, empty and
\* blank content.
NextWrite ==
    \/ Connect(1)
    \/ \E m \in Contents :
          /\ userMessageRateLimit[1] = NoWindow
          /\ SendMessage(1, 1, 1, UserName(1), m, NullId, NullId)
          /\ UNCHANGED admitted
    \/ \E h \in Slots, ok \in BOOLEAN : SendMembership(h, ok)
    \/ \E h \in Slots, ok \in BOOLEAN : SendInsert(h, ok)
    \/ \E h \in Slots, ok \in BOOLEAN : SendFetch(h, ok)
    \/ \E m \in NewContents \cup {Undefined, <<SP>>} :
          EditMessage(1, 1, 1, m)
    \/ \E h \in Slots, ok \in BOOLEAN : EditGet(h, ok)
    \/ \E h \in Slots, ok \in BOOLEAN : EditUpdate(h, ok)
    \/ \E h \in Slots, ok \in BOOLEAN : EditFetch(h, ok)
    \/ \E p \in {NullId, 1}, m \in Contents \cup {SecondContent} :
          HttpSendMessage(p, 1, UserName(1), m, NullId, NullId)
    \/ \E h \in Slots, ok \in BOOLEAN : HttpSendMembership(h, ok)
    \/ \E h \in Slots, ok \in BOOLEAN : HttpSendInsert(h, ok)
    \/ \E h \in Slots, ok \in BOOLEAN : HttpSendFetch(h, ok)
    \/ \E u \in Users \cup {NullId},
          m \in NewContents \cup {Undefined, <<SP>>} :
          HttpEditMessage(1, u, m)
    \/ \E h \in Slots, ok \in BOOLEAN : HttpEditGet(h, ok)
    \/ \E h \in Slots, ok \in BOOLEAN : HttpEditUpdate(h, ok)
    \/ \E h \in Slots, ok \in BOOLEAN : HttpEditFetch(h, ok)

SpecWrite == InitStored /\ [][NextWrite]_vars

\* The admissions of one sender observed over time: every send of user 1
\* (to project 2, which the sender is no member of) that the rate limiter
\* lets pass is logged with the clock reading; entries a window length old
\* or older are dropped from the log.
RecentAdmissions(log) ==
    SelectSeq(log, LAMBDA t : now - t < RATE_LIMIT_WINDOW)

LogAdmission(senderId) ==
    admitted' = IF RateLimitCheck(senderId).admit
                THEN [admitted EXCEPT ![senderId] =
                         Append(RecentAdmissions(@), now)]
                ELSE admitted

NextSlide ==
    \/ Connect(1)
    \/ Tick(MaxTicks)
    \/ \E m \in {<<SP>>, <<"h", SP>>} :
          /\ SendMessage(1, 2, 1, UserName(1), m, NullId, NullId)
          /\ LogAdmission(1)
    \/ \E h \in Slots, ok \in BOOLEAN : SendMembership(h, ok)

SpecSlide == Init /\ [][NextSlide]_vars

\* Two sends on one connection, one after the other, the second received
\* while the first may still be suspended at a store call: the first send
\* of the sender (no rate window yet) carries FirstContent, with or without
\* a replyToMessageId, the second one SecondContent and no reply.

NextOrder ==
    \/ \E c \in Conns : Connect(c)
    \/ \E c \in Conns :
          JoinProjectChat(c, 1, 1, UserName(1))
    \/ \E h \in Slots, ok \in BOOLEAN : JoinMembership(h, ok)
    \/ \E r \in {NullId, 1} :
          /\ userMessageRateLimit[1] = NoWindow
          /\ SendMessage(1, 1, 1, UserName(1), FirstContent, r,
                         IF r = NullId THEN NullId ELSE 1)
          /\ UNCHANGED admitted
    \/ /\ userMessageRateLimit[1].count = 1
       /\ SendMessage(1, 1, 1, UserName(1), SecondContent, NullId, NullId)
       /\ UNCHANGED admitted
    \/ \E h \in Slots, ok \in BOOLEAN : SendMembership(h, ok)
    \/ \E h \in Slots, ok \in BOOLEAN : SendReplyLookup(h, ok)
    \/ \E h \in Slots, ok \in BOOLEAN : SendInsert(h, ok)
    \/ \E h \in Slots, ok \in BOOLEAN : SendFetch(h, ok)

SpecOrder == Init /\ [][NextOrder]_vars

\* Typing presence next to sends: every way a typing entry goes away
\* (stop-typing, a refresh, a send that got through, disconnect, expiry).
NextPresence ==
    \/ Connect(1)
    \/ Disconnect(1)
    \/ Tick(TypingTicks)
    \/ JoinProjectChat(1, 1, 1, UserName(1))
    \/ \E h \in Slots, ok \in BOOLEAN : JoinMembership(h, ok)
    \/ \E p \in Projects : Typing(1, p, 1, UserName(1))
    \/ \E p \in Projects : StopTyping(1, p, 1)
    \/ \E t \in timers : TimerFire(t)
    \/ /\ userMessageRateLimit[1] = NoWindow
       /\ \E p \in Projects, m \in {<<SP>>, FirstContent} :
             SendMessage(1, p, 1, UserName(1), m, NullId, NullId)
       /\ UNCHANGED admitted
    \/ \E h \in Slots, ok \in BOOLEAN : SendMembership(h, ok)
    \/ \E h \in Slots, ok \in BOOLEAN : SendInsert(h, ok)
    \/ \E h \in Slots, ok \in BOOLEAN : SendFetch(h, ok)

SpecPresence == Init /\ [][NextPresence]_vars

\* Expiry of typing entries.  The clock of the model stops at ClockEnd, so a
\* typing signal is taken only while its timer can still come due.  Time
\* passes and a timer that is due runs: weak fairness on the clock step and
\* on the timer callbacks.
ClockEnd == MaxTicks * TickMs

NextExpiry ==
    \/ \E c \in Conns : Connect(c)
    \/ Disconnect(1)
    \/ Tick(MaxTicks)
    \/ JoinProjectChat(2, 1, 1, UserName(1))
    \/ \E h \in Slots, ok \in BOOLEAN : JoinMembership(h, ok)
    \/ \E p \in Projects :
          now + TYPING_TIMEOUT <= ClockEnd /\ Typing(1, p, 1, UserName(1))
    \/ \E p \in Projects : StopTyping(1, p, 1)
    \/ \E t \in timers : TimerFire(t)

SpecExpiry ==
    /\ Init
    /\ [][NextExpiry]_vars
    /\ WF_vars(Tick(MaxTicks))
    /\ WF_vars(\E t \in timers : TimerFire(t))

\* An edit and a delete of the stored message by its sender on one
\* connection, each received while the other may be suspended at a store
\* call; a second connection listens in the room.
NextRace ==
    \/ \E c \in Conns : Connect(c)
    \/ \E c \in Conns :
          JoinProjectChat(c, 1, 1, UserName(1))
    \/ \E h \in Slots, ok \in BOOLEAN : JoinMembership(h, ok)
    \/ EditMessage(1, 1, 1, SecondContent)
    \/ \E h \in Slots, ok \in BOOLEAN : EditGet(h, ok)
    \/ \E h \in Slots, ok \in BOOLEAN : EditUpdate(h, ok)
    \/ \E h \in Slots, ok \in BOOLEAN : EditFetch(h, ok)
    \/ DeleteMessage(1, 1, 1)
    \/ \E h \in Slots, ok \in BOOLEAN : DeleteGet(h, ok)
    \/ \E h \in Slots, ok \in BOOLEAN : DeleteUpdate(h, ok)

SpecRace == InitStored /\ [][NextRace]_vars

\* The life of the rows: replies to the stored message, found live or not,
\* edits and soft deletes over the socket, soft deletes and status updates
\* over HTTP, each received while others may be suspended at a store call.
StatusInputs == {"read", "seen", NullName}

NextStore ==
    \/ Connect(1)
    \/ /\ userMessageRateLimit[1] = NoWindow
       /\ SendMessage(1, 1, 1, UserName(1), FirstContent, 1, 1)
       /\ UNCHANGED admitted
    \/ \E h \in Slots, ok \in BOOLEAN : SendMembership(h, ok)
    \/ \E h \in Slots, ok \in BOOLEAN : SendReplyLookup(h, ok)
    \/ \E h \in Slots, ok \in BOOLEAN : SendInsert(h, ok)
    \/ \E h \in Slots, ok \in BOOLEAN : SendFetch(h, ok)
    \/ \E m \in {FirstContent, SecondContent} : EditMessage(1, 1, 1, m)
    \/ EditMessage(1, 2, 1, SecondContent)
    \/ \E h \in Slots, ok \in BOOLEAN : EditGet(h, ok)
    \/ \E h \in Slots, ok \in BOOLEAN : EditUpdate(h, ok)
    \/ \E h \in Slots, ok \in BOOLEAN : EditFetch(h, ok)
    \/ DeleteMessage(1, 1, 1)
    \/ \E h \in Slots, ok \in BOOLEAN : DeleteGet(h, ok)
    \/ \E h \in Slots, ok \in BOOLEAN : DeleteUpdate(h, ok)
    \/ HttpDeleteMessage(1, 1)
    \/ \E h \in Slots, ok \in BOOLEAN : HttpDeleteGet(h, ok)
    \/ \E h \in Slots, ok \in BOOLEAN : HttpDeleteUpdate(h, ok)
    \/ \E s \in StatusInputs : UpdateMessageStatus(1, s)
    \/ \E h \in Slots, ok \in BOOLEAN : StatusUpdate(h, ok)

SpecStore == InitStored /\ [][NextStore]_vars

\* Replies across projects: user 2, a member of project 2, replies over the
\* socket and over HTTP to the stored message of project 1.
NextQuote ==
    \/ \E c \in Conns : Connect(c)
    \/ \E c \in Conns :
          JoinProjectChat(c, 2, 2, UserName(2))
    \/ \E h \in Slots, ok \in BOOLEAN : JoinMembership(h, ok)
    \/ \E c \in Conns, r \in {NullId, 1} :
          /\ userMessageRateLimit[2].count < MaxMessages
          /\ SendMessage(c, 2, 2, UserName(2), SecondContent, r,
                         IF r = NullId THEN NullId ELSE 1)
          /\ UNCHANGED admitted
    \/ \E h \in Slots, ok \in BOOLEAN : SendMembership(h, ok)
    \/ \E h \in Slots, ok \in BOOLEAN : SendReplyLookup(h, ok)
    \/ \E h \in Slots, ok \in BOOLEAN : SendInsert(h, ok)
    \/ \E h \in Slots, ok \in BOOLEAN : SendFetch(h, ok)
    \/ \E r \in {NullId, 1} :
          /\ HttpSendMessage(2, 2, UserName(2), SecondContent, r,
                             IF r = NullId THEN NullId ELSE 1)
    \/ \E h \in Slots, ok \in BOOLEAN : HttpSendMembership(h, ok)
    \/ \E h \in Slots, ok \in BOOLEAN : HttpSendReplyLookup(h, ok)
    \/ \E h \in Slots, ok \in BOOLEAN : HttpSendInsert(h, ok)
    \/ \E h \in Slots, ok \in BOOLEAN : HttpSendFetch(h, ok)

SpecQuote == InitStored /\ [][NextQuote]_vars

\* ================================================================= claims
\* es is exactly one error event with message msg, addressed to c alone
OnlyErrorTo(es, c, msg) ==
    /\ Len(es) = 1
    /\ es[1].ev = "error"
    /\ es[1].msg = msg
    /\ es[1].from = c
    /\ es[1].to = (IF sockets[c].status = "connected" THEN {c} ELSE {})

ThrottleMessage ==
    "You are sending messages too quickly. Please wait a moment."

\* C1: for every sender, a window opens with the first send and counts the
\* sends admitted since; inside the window (less than 10 s after its start)
\* a send is admitted while fewer than 5 were, and otherwise rejected with
\* the throttling error and without any effect; 10 s or more after the
\* window start the next send is admitted and opens a new window with the
\* full capacity.  No window ever counts more than 5 admitted sends.
C1_RateWindow ==
    /\ [](\A u \in Users : userMessageRateLimit[u].count <= 5)
    /\ [][\A c \in Conns, p \in Projects, u \in Users, m \in Contents :
            SendMessage(c, p, u, UserName(u), m, NullId, NullId) =>
              LET w == userMessageRateLimit[u]
                  inWindow == w.count > 0 /\ now - w.timestamp < 10000
              IN  IF inWindow /\ w.count >= 5
                  THEN /\ OnlyErrorTo(emitted', c, ThrottleMessage)
                       /\ UNCHANGED <<userMessageRateLimit, inflight,
                                      messages>>
                  ELSE /\ userMessageRateLimit'[u] =
                            IF inWindow
                            THEN [count |-> w.count + 1,
                                  timestamp |-> w.timestamp]
                            ELSE [count |-> 1, timestamp |-> now]
                       /\ \A i \in 1 .. Len(emitted') :
                              emitted'[i].msg # ThrottleMessage
         ]_vars

\* a sixth send within 8 seconds of the first is throttled
C1_Witness ==
    \E u \in Users :
        /\ userMessageRateLimit[u].count = 5
        /\ now - userMessageRateLimit[u].timestamp < 8000
        /\ Len(emitted) = 1
        /\ emitted[1].msg = ThrottleMessage

\* es is exactly one error event of the handler of connection c, delivered
\* to nobody but c
OneErrorTo(es, c) ==
    /\ Len(es) = 1
    /\ es[1].ev = "error"
    /\ es[1].from = c
    /\ es[1].to = (IF sockets[c].status = "connected" THEN {c} ELSE {})

NotMemberToSend == "You must be a project member to send messages"
NotMemberToJoin == "You must be a project member to join chat"
EmptyMessage == "Message cannot be empty"

\* an approved member of a project: the project exists and the user has a
\* row of it with invitationStatus 'approved'
ApprovedMember(projectId, userId) ==
    /\ projectId \in projects
    /\ projectMembers[<<projectId, userId>>] = "approved"

\* C2: when the membership check of a send completes and the sender is not
\* an approved member of the project at that time, the handler ends there:
\* one error event to the originating connection, no row inserted, no
\* new-message broadcast.
C2_NonMemberSendRejected ==
    [][\A h \in Slots, ok \in BOOLEAN :
          LET r == inflight[h] IN
          (/\ SendMembership(h, ok)
           /\ ~ApprovedMember(r.projectId, r.userId))
          => /\ inflight'[h] = Idle
             /\ messages' = messages
             /\ OneErrorTo(emitted', r.conn)
             /\ ok => emitted'[1].msg = NotMemberToSend
      ]_vars

\* a connection that joined project 1 while the sender was approved is
\* refused after the approval was removed
C2_Witness ==
    \E c \in Conns :
        /\ OnlyErrorTo(emitted, c, NotMemberToSend)
        /\ sockets[c].status = "connected"
        /\ 1 \in sockets[c].rooms
        /\ projectMembers[<<1, 1>>] = "none"

\* C3: when the membership check of a join completes and the user is not an
\* approved member of the project, the connection's rooms and stamp are
\* unchanged, nothing is broadcast and the connection gets an error; a row
\* left behind for a deleted project makes nobody a member.  When the user
\* is an approved member (and the membership query did not fail) the
\* connection is added to the room and stamped with the request's ids and
\* name.
C3_JoinGate ==
    [][\A h \in Slots, ok \in BOOLEAN :
          LET r == inflight[h] IN
          JoinMembership(h, ok) =>
            IF ~ApprovedMember(r.projectId, r.userId)
            THEN /\ sockets' = sockets
                 /\ OneErrorTo(emitted', r.conn)
                 /\ ok => emitted'[1].msg = NotMemberToJoin
            ELSE ok =>
                 /\ sockets' = [sockets EXCEPT ![r.conn] =
                        [status |-> sockets[r.conn].status,
                         rooms |-> sockets[r.conn].rooms \cup {r.projectId},
                         projectId |-> r.projectId, userId |-> r.userId,
                         userName |-> r.userName]]
                 /\ \A i \in 1 .. Len(emitted') : emitted'[i].ev # "error"
      ]_vars

\* a connected, never admitted connection has been denied
C3_Witness ==
    \E c \in Conns :
        /\ OnlyErrorTo(emitted, c, NotMemberToJoin)
        /\ emitted[1].to = {c}
        /\ sockets[c].rooms = {}
        /\ sockets[c].projectId = NullId

\* C4: a send with non-empty content that the rate limiter admits is handed
\* to the membership check; with the sender an approved member of the
\* project and every store call succeeding it is inserted as a new row
\* with isDeleted = 0 carrying the payload, and new-message with the stored
\* row goes to every connection in the room of the project, the sender's
\* connection included.
C4_SendPersistsAndBroadcasts ==
    [][\A h \in Slots :
          LET r == inflight[h] IN
          /\ (/\ SendMembership(h, TRUE)
              /\ ApprovedMember(r.projectId, r.userId))
             => /\ inflight'[h].pc \in {"send_reply", "send_insert"}
                /\ emitted' = <<>>
          /\ SendReplyLookup(h, TRUE)
             => /\ inflight'[h].pc = "send_insert"
                /\ emitted' = <<>>
          /\ SendInsert(h, TRUE)
             => /\ Len(messages') = Len(messages) + 1
                /\ SubSeq(messages', 1, Len(messages)) = messages
                /\ LET row == messages'[Len(messages')] IN
                     /\ row.id = Len(messages')
                     /\ row.isDeleted = 0
                     /\ row.projectId = r.projectId
                     /\ row.senderId = r.userId
                     /\ row.senderName = r.userName
                     /\ row.messageContent = r.content
                /\ inflight'[h].pc = "send_fetch"
                /\ inflight'[h].lastID = Len(messages')
          /\ SendFetch(h, TRUE)
             => /\ Len(emitted') >= 1
                /\ emitted'[1].ev = "new-message"
                /\ emitted'[1].row = messages[r.lastID]
                /\ emitted'[1].to =
                     {c \in Conns : /\ sockets[c].status = "connected"
                                    /\ r.projectId \in sockets[c].rooms}
      ]_vars

\* new-message reached two connections in the room, one of them the sender's
C4_Witness ==
    /\ Len(emitted) >= 1
    /\ emitted[1].ev = "new-message"
    /\ emitted[1].from \in emitted[1].to
    /\ Cardinality(emitted[1].to) = 2
    /\ ApprovedMember(emitted[1].row.projectId, emitted[1].row.senderId)
    /\ emitted[1].row = messages[emitted[1].messageId]
    /\ emitted[1].row.isDeleted = 0

\* content that is missing, empty or made of whitespace only
BlankContent(m) == m = Undefined \/ \A i \in 1 .. Len(m) : m[i] = SP

\* C5: a send whose content is missing, empty or whitespace-only ends in the
\* synchronous part of the handler with one error to the originator: no
\* handler is suspended at a store call for it (no membership query, reply
\* lookup or insert), the store is unchanged, and no suspended send ever
\* carries such content.
C5_BlankSendRejected ==
    /\ [](\A h \in Slots :
             inflight[h].kind = "send" => ~BlankContent(inflight[h].content))
    /\ [][\A m \in {x \in Contents : BlankContent(x)}, c \in Conns,
             p \in Projects, u \in Users, r \in {NullId, 1} :
            SendMessage(c, p, u, UserName(u), m, r,
                        IF r = NullId THEN NullId ELSE 1)
            => /\ inflight' = inflight
               /\ messages' = messages
               /\ OneErrorTo(emitted', c)
               /\ emitted'[1].msg \in {EmptyMessage, ThrottleMessage}
         ]_vars

\* a send has been refused for its content
C5_Witness ==
    \E c \in Conns :
        /\ OnlyErrorTo(emitted, c, EmptyMessage)
        /\ emitted[1].to = {c}

\* C9 (as claimed): only a connection that completed a join gets a send,
\* edit or delete as far as a store write or a room broadcast.
C9_OnlyJoinedConnectionsMutate ==
    /\ \A h \in Slots :
           inflight[h].pc \in {"send_fetch", "edit_fetch"}
               => sockets[inflight[h].conn].projectId # NullId
    /\ \A i \in 1 .. Len(emitted) :
           emitted[i].ev \in {"new-message", "message-edited",
                              "message-deleted"}
               => sockets[emitted[i].from].projectId # NullId

NotYourEdit == "You can only edit your own messages"
NotYourDelete == "You can only delete your own messages"
NotFound == "Message not found"

\* C6: when the lookup of an edit completes and the requesting userId is
\* not the senderId of the target row, the handler ends there with one
\* error to the originator and the store unchanged; no edit reaches its
\* UPDATE or its broadcast for a user other than the sender; and the
\* content and editedAt of a row change only in the UPDATE of an edit
\* requested with the sender's id.
C6_EditByOthersRejected ==
    /\ [](\A h \in Slots :
            inflight[h].pc \in {"edit_update", "edit_fetch"}
              => /\ inflight[h].messageId \in 1 .. Len(messages)
                 /\ messages[inflight[h].messageId].senderId
                      = inflight[h].userId)
    /\ [][\A h \in Slots, ok \in BOOLEAN :
            LET r == inflight[h] IN
            (/\ EditGet(h, ok)
             /\ r.messageId \in 1 .. Len(messages)
             /\ messages[r.messageId].senderId # r.userId)
            => /\ inflight'[h] = Idle
               /\ messages' = messages
               /\ OneErrorTo(emitted', r.conn)
               /\ (ok /\ messages[r.messageId].isDeleted = 0)
                     => emitted'[1].msg = NotYourEdit
         ]_vars
    /\ [][\A i \in 1 .. Len(messages) :
            (\/ messages'[i].messageContent # messages[i].messageContent
             \/ messages'[i].editedAt # messages[i].editedAt)
            => \E h \in Slots :
                  /\ inflight[h].pc = "edit_update"
                  /\ inflight[h].messageId = i
                  /\ inflight[h].userId = messages[i].senderId
                  /\ inflight'[h].pc = "edit_fetch"
         ]_vars

\* an edit of the stored message by another user has been refused
C6_Witness ==
    \E c \in Conns :
        /\ OnlyErrorTo(emitted, c, NotYourEdit)
        /\ emitted[1].to = {c}
        /\ messages[1].messageContent = StoredMessages[1].messageContent
        /\ messages[1].editedAt = NullTime

\* offsets of history queries
PageOffsets == 0 .. 2

\* C7: when the UPDATE of a delete succeeds (its lookup found the row not
\* deleted and owned by the requester) the row's isDeleted becomes 1, no
\* other column but updatedAt and no other row changes, and message-deleted
\* with the messageId and nothing else goes to the room of the row's
\* project; no history page ever holds a soft-deleted row; a delete whose
\* lookup finds the row absent, soft-deleted or owned by another user ends
\* with one error to the originator and changes nothing.
C7_SoftDelete ==
    /\ [](\A p \in Projects, limit \in PageLimits, offset \in PageOffsets :
            LET page == ListPage(p, limit, offset) IN
            \A i \in 1 .. Len(page) :
                /\ page[i].isDeleted = 0
                /\ page[i].projectId = p
                /\ messages[page[i].id] = page[i])
    /\ [][\A h \in Slots :
            LET r == inflight[h]
                id == r.messageId
                rejected == \/ id \notin 1 .. Len(messages)
                            \/ messages[id].isDeleted # 0
                            \/ messages[id].senderId # r.userId
            IN
            /\ DeleteUpdate(h, TRUE)
               => /\ messages'[id].isDeleted = 1
                  /\ messages[id].senderId = r.userId
                  /\ \A i \in 1 .. Len(messages) :
                        i # id => messages'[i] = messages[i]
                  /\ [messages'[id] EXCEPT !.isDeleted = 0,
                                           !.updatedAt = 0]
                       = [messages[id] EXCEPT !.isDeleted = 0,
                                              !.updatedAt = 0]
                  /\ emitted' =
                       <<[ev |-> "message-deleted", from |-> r.conn,
                          to |-> {c \in Conns :
                                    /\ sockets[c].status = "connected"
                                    /\ messages[id].projectId
                                         \in sockets[c].rooms},
                          msg |-> "", userId |-> NullId,
                          userName |-> NullName, messageId |-> id,
                          row |-> NoRow]>>
            /\ \A ok \in BOOLEAN :
                 (DeleteGet(h, ok) /\ rejected)
                 => /\ inflight'[h] = Idle
                    /\ messages' = messages
                    /\ OneErrorTo(emitted', r.conn)
            /\ (DeleteGet(h, TRUE) /\ ~rejected)
                 => /\ inflight'[h].pc = "delete_update"
                    /\ emitted' = <<>>
         ]_vars

\* the stored message has been deleted by its sender: the room was told and
\* the history of project 1 no longer holds it
C7_Witness ==
    /\ Len(emitted) = 1
    /\ emitted[1].ev = "message-deleted"
    /\ emitted[1].messageId = 1
    /\ emitted[1].to # {}
    /\ messages[1].isDeleted = 1
    /\ ListPage(1, 2, 0) = <<>>

\* C8: every pending expiry timer is the one recorded in typingUsers for
\* its (projectId, userId), and no key has two pending timers: no timer is
\* left behind by a refresh or a clear.
C8_OneTimerPerKey ==
    /\ \A t \in timers : typingUsers[<<t.projectId, t.userId>>] = t.id
    /\ \A t1, t2 \in timers :
          (t1.projectId = t2.projectId /\ t1.userId = t2.userId) => t1 = t2
    /\ \A k \in DOMAIN typingUsers :
          typingUsers[k] # NoTimer
            => \E t \in timers : /\ t.id = typingUsers[k]
                                 /\ <<t.projectId, t.userId>> = k

\* a typing signal has refreshed a live entry one clock step after it was
\* set: the old timer is gone and the new one is the only one pending
C8_Witness ==
    /\ Len(emitted) = 2
    /\ emitted[1].ev = "user-stopped-typing"
    /\ emitted[2].ev = "user-typing"
    /\ now > 0
    /\ Cardinality(timers) = 1
    /\ \A t \in timers : t.due = now + 3000

\* C10: a step that emits an error event emits nothing else, delivers it to
\* no connection but the originating one, and leaves the message store and
\* every connection (status, rooms, stamp) unchanged.
C10_RejectionsAreLocal ==
    [][(emitted' # <<>> /\ \E i \in 1 .. Len(emitted') :
                              emitted'[i].ev = "error")
        => /\ Len(emitted') = 1
           /\ emitted'[1].from \in Conns
           /\ emitted'[1].to \subseteq {emitted'[1].from}
           /\ sockets[emitted'[1].from].status = "connected"
                 => emitted'[1].to = {emitted'[1].from}
           /\ messages' = messages
           /\ sockets' = sockets
      ]_vars

\* a delete by another user was refused while both connections were in the
\* room of project 1: only the originator got the error
C10_Witness ==
    \E c, d \in Conns :
        /\ c # d
        /\ OnlyErrorTo(emitted, c, NotYourDelete)
        /\ emitted[1].to = {c}
        /\ 1 \in sockets[c].rooms
        /\ 1 \in sockets[d].rooms
        /\ sockets[d].status = "connected"

\* C13 (as claimed): of two accepted sends of one connection, the one
\* received first gets the smaller id, whatever the completion order of the
\* store calls.
C13_SendOrderKept ==
    \A i, j \in 1 .. Len(messages) :
        (/\ messages[i].messageContent = FirstContent
         /\ messages[j].messageContent = SecondContent) => i < j

\* C14 (as claimed): the limiter is a sliding window: at any time, at most 5
\* sends of a sender were admitted during the 10 seconds that end now.
C14_SlidingWindow ==
    \A u \in Users :
        Cardinality({i \in 1 .. Len(admitted[u]) :
                        now - admitted[u][i] < 10000}) <= 5

\* the events a send, edit or delete handler answers with
Answers == {"error", "new-message", "message-edited", "message-deleted"}

\* C11 (as claimed): a send, edit or delete handler that was suspended at a
\* store call never ends without an error to its connection or its room
\* broadcast, whichever store call fails.
C11_NoSilentEnd ==
    [][\A h \in Slots :
          (/\ inflight[h].kind \in {"send", "edit", "delete"}
           /\ inflight'[h] = Idle)
          => \E i \in 1 .. Len(emitted') :
                /\ emitted'[i].ev \in Answers
                /\ emitted'[i].from = inflight[h].conn
      ]_vars

\* C12: a failed INSERT, a failed UPDATE of an edit and a failed UPDATE of a
\* delete end the handler with the store unchanged and without the
\* broadcast; new-message and message-edited are emitted only by a handler
\* that got past its successful write and carry the row as stored;
\* message-deleted is emitted only by the step of a successful soft-delete
\* UPDATE, which leaves the flag set; a handler gets to the step that
\* broadcasts only by the step that wrote.
C12_BroadcastAfterWrite ==
    [][/\ \A h \in Slots :
            /\ (SendInsert(h, FALSE) \/ EditUpdate(h, FALSE)
                   \/ DeleteUpdate(h, FALSE))
               => /\ inflight'[h] = Idle
                  /\ messages' = messages
                  /\ OneErrorTo(emitted', inflight[h].conn)
            /\ (inflight'[h].pc = "send_fetch" /\ inflight[h].pc # "send_fetch")
               => /\ inflight[h].pc = "send_insert"
                  /\ Len(messages') = Len(messages) + 1
                  /\ inflight'[h].lastID = Len(messages')
                  /\ messages'[Len(messages')].messageContent
                       = inflight[h].content
            /\ (inflight'[h].pc = "edit_fetch" /\ inflight[h].pc # "edit_fetch")
               => /\ inflight[h].pc = "edit_update"
                  /\ messages'[inflight[h].messageId].messageContent
                       = inflight[h].content
       /\ \A i \in 1 .. Len(emitted') :
            LET e == emitted'[i] IN
            /\ e.ev = "new-message"
               => /\ \E h \in Slots : /\ inflight[h].pc = "send_fetch"
                                       /\ inflight[h].lastID = e.row.id
                  /\ e.row.id \in 1 .. Len(messages')
                  /\ messages'[e.row.id] = e.row
            /\ e.ev = "message-edited"
               => /\ \E h \in Slots : /\ inflight[h].pc = "edit_fetch"
                                       /\ inflight[h].messageId = e.row.id
                  /\ messages'[e.row.id] = e.row
            /\ e.ev = "message-deleted"
               => /\ \E h \in Slots : /\ inflight[h].pc = "delete_update"
                                       /\ inflight[h].messageId = e.messageId
                                       /\ DeleteUpdate(h, TRUE)
                  /\ messages'[e.messageId].isDeleted = 1
      ]_vars

\* the UPDATE of an edit of the stored message failed: the originator got
\* the error, nothing was broadcast and the row is as it was
C12_Witness ==
    /\ Len(emitted) = 1
    /\ emitted[1].ev = "error"
    /\ emitted[1].msg = "Failed to edit message"
    /\ emitted[1].to = {emitted[1].from}
    /\ messages[1].messageContent = StoredMessages[1].messageContent
    /\ messages[1].editedAt = NullTime

\* C15: the disconnect of a connection stamped by a successful join removes
\* the typing entry and the timer of the stamped (projectId, userId) and no
\* other, emits user-stopped-typing if there was an entry and then user-left
\* with the stamped user, both to the other connections of the stamped
\* project's room; the disconnect of a connection that never joined emits
\* nothing and leaves the typing map and the timers alone.
C15_DisconnectCleansUp ==
    [][\A c \in Conns :
          Disconnect(c) =>
            LET s == sockets[c]
                key == <<s.projectId, s.userId>>
                others == {d \in Conns \ {c} :
                             /\ sockets[d].status = "connected"
                             /\ s.projectId \in sockets[d].rooms}
            IN
            /\ sockets'[c].status = "disconnected"
            /\ IF s.projectId # NullId
               THEN /\ typingUsers' = [typingUsers EXCEPT ![key] = NoTimer]
                    /\ timers' = {t \in timers :
                                    <<t.projectId, t.userId>> # key}
                    /\ Len(emitted')
                         = IF typingUsers[key] # NoTimer THEN 2 ELSE 1
                    /\ typingUsers[key] # NoTimer
                         => /\ emitted'[1].ev = "user-stopped-typing"
                            /\ emitted'[1].userId = s.userId
                            /\ emitted'[1].to = others
                    /\ LET e == emitted'[Len(emitted')] IN
                         /\ e.ev = "user-left"
                         /\ e.userId = s.userId
                         /\ e.userName = s.userName
                         /\ e.to = others
               ELSE /\ emitted' = <<>>
                    /\ typingUsers' = typingUsers
                    /\ timers' = timers
      ]_vars

\* a joined connection whose user was typing has disconnected: the other
\* connection in the room was told both
C15_Witness ==
    /\ Len(emitted) = 2
    /\ emitted[1].ev = "user-stopped-typing"
    /\ emitted[2].ev = "user-left"
    /\ sockets[emitted[2].from].status = "disconnected"
    /\ emitted[2].to # {}
    /\ emitted[1].to = emitted[2].to
    /\ timers = {}

\* C16: when the membership check of a join by an approved member succeeds,
\* the connection is in room project-<projectId> afterwards, carries the
\* projectId, userId and userName of the request, no other connection
\* changes, and exactly one event is emitted: user-joined with that user,
\* to the connections that were in the room before, the joining one
\* excluded even if it was in the room already.
C16_JoinAnnounced ==
    [][\A h \in Slots :
          LET r == inflight[h]
              c == r.conn
          IN
          (/\ JoinMembership(h, TRUE)
           /\ ApprovedMember(r.projectId, r.userId))
          => /\ r.projectId \in sockets'[c].rooms
             /\ sockets[c].rooms \subseteq sockets'[c].rooms
             /\ sockets'[c].projectId = r.projectId
             /\ sockets'[c].userId = r.userId
             /\ sockets'[c].userName = r.userName
             /\ \A d \in Conns \ {c} : sockets'[d] = sockets[d]
             /\ Len(emitted') = 1
             /\ emitted'[1].ev = "user-joined"
             /\ emitted'[1].userId = r.userId
             /\ emitted'[1].userName = r.userName
             /\ emitted'[1].to =
                  {d \in Conns \ {c} : /\ sockets[d].status = "connected"
                                       /\ r.projectId \in sockets[d].rooms}
      ]_vars

\* a second connection has joined a room: the first one was told, the
\* joining one was not
C16_Witness ==
    /\ Len(emitted) = 1
    /\ emitted[1].ev = "user-joined"
    /\ emitted[1].to # {}
    /\ emitted[1].from \notin emitted[1].to
    /\ sockets[emitted[1].from].projectId \in sockets[emitted[1].from].rooms
    /\ sockets[emitted[1].from].userId = emitted[1].userId

\* C17: a history request gets past the membership check only for a user
\* who is an approved member of the project at that time; the page of a
\* successful response holds at most `limit` rows, each a stored row of the
\* requested project that is not soft-deleted, no row twice, in ascending
\* order of createdAt; and only the last step of a history request answers
\* with a page.
C17_HistoryPages ==
    [][/\ \A h \in Slots :
            LET r == inflight[h] IN
            /\ (inflight'[h].pc = "hist_count" /\ r.pc # "hist_count")
               => /\ r.pc = "hist_member"
                  /\ ApprovedMember(r.projectId, r.userId)
            /\ (inflight'[h].pc = "hist_select" /\ r.pc # "hist_select")
               => r.pc = "hist_count"
            /\ HistSelect(h, TRUE)
               => LET page == emitted'[1].data.messages IN
                  /\ emitted'[1].status = 200
                  /\ Len(page) <= r.limit
                  /\ \A i \in 1 .. Len(page) :
                        /\ page[i].projectId = r.projectId
                        /\ page[i].isDeleted = 0
                        /\ page[i].id \in 1 .. Len(messages)
                        /\ messages[page[i].id] = page[i]
                  /\ \A i, j \in 1 .. Len(page) :
                        i < j => /\ page[i].createdAt <= page[j].createdAt
                                 /\ page[i].id # page[j].id
       /\ \A i \in 1 .. Len(emitted') :
            (/\ emitted'[i].ev = "response"
             /\ "messages" \in DOMAIN emitted'[i].data)
            => \E h \in Slots : inflight[h].pc = "hist_select"
      ]_vars

\* a member got a page of project 1 after its first message was
\* soft-deleted: the page holds the second message only
C17_Witness ==
    /\ Len(emitted) = 1
    /\ emitted[1].ev = "response"
    /\ emitted[1].status = 200
    /\ "messages" \in DOMAIN emitted[1].data
    /\ Len(messages) = 2
    /\ messages[1].isDeleted = 1
    /\ messages[1].projectId = 1
    /\ emitted[1].data.messages = <<messages[2]>>
    /\ emitted[1].data.total = 1

\* C18: every stored row has content with a character that is not
\* whitespace, whichever of the socket handlers and HTTP controllers wrote
\* or edited it.
C18_NoBlankContent ==
    \A i \in 1 .. Len(messages) :
        /\ messages[i].messageContent # Undefined
        /\ \E k \in 1 .. Len(messages[i].messageContent) :
              messages[i].messageContent[k] # SP

\* the stored message was edited and a second one sent; blank sends and
\* edits were refused over HTTP
C18_Witness ==
    /\ Len(messages) = 2
    /\ messages[1].editedAt # NullTime
    /\ messages[1].messageContent = SecondContent
    /\ Len(emitted) = 1
    /\ emitted[1].ev = "response"
    /\ emitted[1].status = 400
    /\ emitted[1].msg = "Message cannot be empty"

\* C19: a send that finds its sender's window open (less than 10 s old) and
\* full (count 5) is refused with the throttling error and leaves the whole
\* rate map as it was; no step that emits the throttling error changes the
\* map; and every window that exists counts between 1 and 5 sends.
C19_RejectionKeepsWindow ==
    /\ [](\A u \in Users :
             userMessageRateLimit[u] # NoWindow
               => /\ userMessageRateLimit[u].count >= 1
                  /\ userMessageRateLimit[u].count <= 5)
    /\ [][/\ \A c \in Conns, p \in Projects, u \in Users, m \in Contents :
                (/\ SendMessage(c, p, u, UserName(u), m, NullId, NullId)
                 /\ userMessageRateLimit[u].count >= 5
                 /\ now - userMessageRateLimit[u].timestamp < 10000)
                => /\ userMessageRateLimit' = userMessageRateLimit
                   /\ OnlyErrorTo(emitted', c, ThrottleMessage)
           /\ \A i \in 1 .. Len(emitted') :
                (emitted'[i].ev = "error" /\ emitted'[i].msg = ThrottleMessage)
                => userMessageRateLimit' = userMessageRateLimit
         ]_vars

\* a send was refused a clock step or more after its window was opened,
\* and the window still shows 5 sends and its start
C19_Witness ==
    \E u \in Users :
        /\ userMessageRateLimit[u].count = 5
        /\ now - userMessageRateLimit[u].timestamp >= TickMs
        /\ Len(emitted) = 1
        /\ emitted[1].ev = "error"
        /\ emitted[1].msg = ThrottleMessage

\* C20: a send that finds its sender's window 10 s old or older, full or
\* not, is not throttled and replaces the window by count 1 and the current
\* time as start; a send that finds the window less than 10 s old leaves
\* the window start as it was.
C20_WindowBoundary ==
    [][\A c \in Conns, p \in Projects, u \in Users, m \in Contents :
          SendMessage(c, p, u, UserName(u), m, NullId, NullId) =>
            LET w == userMessageRateLimit[u] IN
            /\ (w.count > 0 /\ now - w.timestamp >= 10000)
               => /\ userMessageRateLimit'[u] =
                       [count |-> 1, timestamp |-> now]
                  /\ \A i \in 1 .. Len(emitted') :
                        emitted'[i].msg # ThrottleMessage
            /\ (w.count > 0 /\ now - w.timestamp < 10000)
               => userMessageRateLimit'[u].timestamp = w.timestamp
      ]_vars

\* a send arrived exactly 10 s after the start of a window that was full
\* (its four later sends are still less than 10 s old) and opened a new one
C20_Witness ==
    /\ now = 10000
    /\ userMessageRateLimit[1] = [count |-> 1, timestamp |-> 10000]
    /\ Len(admitted[1]) = 5
    /\ admitted[1][5] = 10000
    /\ \A i \in 1 .. 4 : admitted[1][i] < 10000 /\ admitted[1][i] > 0

\* C21 (as claimed): a typing or stop-typing signal of a connection that is
\* not in the room of the signal's project leaves the typing map and the
\* timers alone and emits nothing.
C21_TypingNeedsJoin ==
    [][\A c \in Conns, p \in Projects :
          (/\ p \notin sockets[c].rooms
           /\ Typing(c, p, 1, UserName(1)) \/ StopTyping(c, p, 1))
          => /\ typingUsers' = typingUsers
             /\ timers' = timers
             /\ emitted' = <<>>
      ]_vars

\* C24 (as claimed): a typing signal for a key that has a live entry sends
\* no user-typing to any connection.
C24_RefreshIsSilent ==
    [][\A c \in Conns, p \in Projects :
          (/\ typingUsers[<<p, 1>>] # NoTimer
           /\ Typing(c, p, 1, UserName(1)))
          => \A i \in 1 .. Len(emitted') :
                emitted'[i].ev = "user-typing" => emitted'[i].to = {}
      ]_vars

\* the positions of the user-stopped-typing events in es
StoppedTyping(es) ==
    {i \in 1 .. Len(es) : es[i].ev = "user-stopped-typing"}

\* C22: a step that takes a typing entry away (the key has no entry or
\* another timer afterwards) emits exactly one user-stopped-typing, with the
\* userId of the key, to the connections in the room of the key's project;
\* a step that leaves every entry in place emits no user-stopped-typing and
\* leaves the timers alone; stop-typing for a key without an entry emits
\* nothing and changes neither the entries nor the timers.
C22_OneStopPerRemoval ==
    [][LET removed == {k \in Projects \X Users :
                          /\ typingUsers[k] # NoTimer
                          /\ typingUsers'[k] # typingUsers[k]}
       IN
       /\ Cardinality(StoppedTyping(emitted')) = Cardinality(removed)
       /\ \A k \in removed, i \in StoppedTyping(emitted') :
             /\ emitted'[i].userId = k[2]
             /\ emitted'[i].to = Room(k[1])'
       /\ removed = {} /\ ~(\E k \in Projects \X Users :
                               typingUsers'[k] # typingUsers[k])
             => timers' = timers
       /\ \A c \in Conns, p \in Projects :
             (typingUsers[<<p, 1>>] = NoTimer /\ StopTyping(c, p, 1))
             => /\ emitted' = <<>>
                /\ typingUsers' = typingUsers
                /\ timers' = timers
      ]_vars

\* a send that got through took the sender's typing entry away: the room
\* got new-message and then one user-stopped-typing
C22_Witness ==
    /\ Len(emitted) = 2
    /\ emitted[1].ev = "new-message"
    /\ emitted[2].ev = "user-stopped-typing"
    /\ emitted[2].userId = 1
    /\ emitted[2].to # {}
    /\ typingUsers[<<1, 1>>] = NoTimer
    /\ timers = {}

\* C23: every typing entry goes away: an entry with timer handle t is
\* eventually removed or replaced by a refresh (which sets another handle);
\* every timer is set to come due 3000 ms after the signal and does not run
\* earlier; when the timer of a live entry runs, the entry is removed and
\* one user-stopped-typing with the key's userId goes to the project's room.
C23_EntriesExpire ==
    /\ \A k \in Projects \X Users, id \in TimerIds :
          (typingUsers[k] = id) ~> (typingUsers[k] # id)
    /\ [][/\ \A t \in timers' \ timers : t.due = now + 3000
          /\ \A t \in timers :
                TimerFire(t)
                => /\ now - t.due >= 0
                   /\ typingUsers[<<t.projectId, t.userId>>] = t.id
                   /\ typingUsers'[<<t.projectId, t.userId>>] = NoTimer
                   /\ Len(emitted') = 1
                   /\ emitted'[1].ev = "user-stopped-typing"
                   /\ emitted'[1].userId = t.userId
                   /\ emitted'[1].to = Room(t.projectId)
         ]_vars

\* the entry of a connection that signalled typing and went away without a
\* stop-typing was removed by its timer: the listener in the room was told
C23_Witness ==
    /\ sockets[1].status = "disconnected"
    /\ Len(emitted) = 1
    /\ emitted[1].ev = "user-stopped-typing"
    /\ emitted[1].to = {2}
    /\ now >= 3000
    /\ typingUsers[<<1, 1>>] = NoTimer

\* C25 (as claimed): an edit with blank content is answered by the first
\* check that fails in the order existence, ownership, content: not found
\* for an absent or soft-deleted target, forbidden for a target of another
\* sender, and the content error only for a live message of the requester.
C25_ExistenceBeforeContent ==
    [][\A c \in Conns, i \in MessageIds, u \in Users, m \in NewContents :
          (IsBlank(m) /\ EditMessage(c, i, u, m))
          => IF SelectLiveById(i) = NoRow
             THEN OnlyErrorTo(emitted', c, NotFound)
             ELSE IF NotOwner(SelectLiveById(i), u)
             THEN OnlyErrorTo(emitted', c, NotYourEdit)
             ELSE OnlyErrorTo(emitted', c, EmptyMessage)
      ]_vars

\* C27 (as claimed): no step changes the content of a row whose soft-delete
\* flag is set, and no message-edited is emitted for a row whose flag was
\* set (message-deleted is emitted by the step that sets it).
C27_NoEditAfterDelete ==
    [][/\ \A i \in 1 .. Len(messages) :
             messages[i].isDeleted = 1
             => messages'[i].messageContent = messages[i].messageContent
       /\ \A i \in 1 .. Len(emitted') :
             emitted'[i].ev = "message-edited"
             => messages[emitted'[i].messageId].isDeleted = 0
      ]_vars

\* C28 (as claimed): a stored row whose reply snapshot is null (the reply
\* lookup found no live target, or there was no reply) has a null
\* replyToMessageId and a null replyToUserId.
C28_UnresolvedReplyLeftNull ==
    \A i \in 1 .. Len(messages) :
        (/\ messages[i].replyToUserName = NullName
         /\ messages[i].replyToMessageContent = NullText)
        => /\ messages[i].replyToMessageId = NullId
           /\ messages[i].replyToUserId = NullId

\* C26: no row has an editedAt at the start; the successful UPDATE of an
\* edit, which only the sender of the live message gets to, sets the
\* content of the request, editedAt and updatedAt on that row and changes
\* nothing else; the fetch after it broadcasts message-edited with the row
\* as stored to the room of the row's project; editedAt is changed by no
\* other step and never goes back to null, a new row has none, the content
\* of a row without editedAt is never changed, and no step changes id,
\* projectId, senderId or senderName of a row.
C26_EditRewritesRow ==
    /\ \A i \in 1 .. Len(messages) : messages[i].editedAt = NullTime
    /\ [][/\ \A h \in Slots :
                EditUpdate(h, TRUE)
                => LET r == inflight[h]
                       i == r.messageId
                   IN
                   /\ i \in 1 .. Len(messages)
                   /\ messages[i].senderId = r.userId
                   /\ messages'[i].messageContent = r.content
                   /\ messages'[i].editedAt = now \div 1000
                   /\ messages'[i].editedAt # NullTime
                   /\ messages'[i].updatedAt = now \div 1000
                   /\ messages'[i].isDeleted = messages[i].isDeleted
                   /\ Len(messages') = Len(messages)
                   /\ \A j \in 1 .. Len(messages) :
                         j # i => messages'[j] = messages[j]
          /\ \A h \in Slots :
                EditFetch(h, TRUE)
                => LET i == inflight[h].messageId IN
                   /\ Len(emitted') = 1
                   /\ emitted'[1].ev = "message-edited"
                   /\ emitted'[1].row = messages[i]
                   /\ emitted'[1].row.editedAt # NullTime
                   /\ emitted'[1].to = Room(messages[i].projectId)
                   /\ messages' = messages
          /\ \A i \in 1 .. Len(messages) :
                /\ messages'[i].id = messages[i].id
                /\ messages'[i].projectId = messages[i].projectId
                /\ messages'[i].senderId = messages[i].senderId
                /\ messages'[i].senderName = messages[i].senderName
                /\ messages[i].editedAt # NullTime
                      => messages'[i].editedAt # NullTime
                /\ messages'[i].editedAt # messages[i].editedAt
                      => \E h \in Slots : /\ EditUpdate(h, TRUE)
                                          /\ inflight[h].messageId = i
                /\ messages'[i].messageContent # messages[i].messageContent
                      => messages'[i].editedAt # NullTime
          /\ \A i \in (Len(messages) + 1) .. Len(messages') :
                messages'[i].editedAt = NullTime
         ]_vars

\* the sender's edit of the stored message went out to both connections in
\* the room: new content, editedAt and updatedAt set, the sender kept
C26_Witness ==
    /\ Len(emitted) = 1
    /\ emitted[1].ev = "message-edited"
    /\ emitted[1].to = Conns
    /\ emitted[1].row.messageContent = SecondContent
    /\ emitted[1].row.editedAt = emitted[1].row.updatedAt
    /\ emitted[1].row.editedAt > emitted[1].row.createdAt
    /\ emitted[1].row.senderId = 1
    /\ emitted[1].row.senderName = UserName(1)
    /\ emitted[1].row.projectId = 1

\* C29: the reply lookup of a send takes senderName and messageContent of
\* the live target as they are stored at that moment (nothing if there is
\* no live target); the INSERT stores what the lookup took, whatever has
\* happened to the target since; and no step changes replyToUserName or
\* replyToMessageContent of a stored row.
C29_ReplySnapshotFrozen ==
    [][/\ \A h \in Slots :
             SendReplyLookup(h, TRUE)
             => LET target == inflight[h].messageId IN
                IF target \in 1 .. Len(messages)
                     /\ messages[target].isDeleted = 0
                THEN /\ inflight'[h].replyToUserName
                           = messages[target].senderName
                     /\ inflight'[h].replyToMessageContent
                           = messages[target].messageContent
                ELSE /\ inflight'[h].replyToUserName = NullName
                     /\ inflight'[h].replyToMessageContent = NullText
       /\ \A h \in Slots :
             SendInsert(h, TRUE)
             => /\ Len(messages') = Len(messages) + 1
                /\ messages'[Len(messages')].replyToUserName
                      = inflight[h].replyToUserName
                /\ messages'[Len(messages')].replyToMessageContent
                      = inflight[h].replyToMessageContent
       /\ \A i \in 1 .. Len(messages) :
             /\ messages'[i].replyToUserName = messages[i].replyToUserName
             /\ messages'[i].replyToMessageContent
                   = messages[i].replyToMessageContent
      ]_vars

\* a reply to the stored message keeps the name and the content it found,
\* after the target was edited, soft-deleted and marked read and the reply
\* itself was edited
C29_Witness ==
    /\ Len(messages) = 2
    /\ messages[2].replyToMessageId = 1
    /\ messages[2].replyToUserName = UserName(1)
    /\ messages[2].replyToMessageContent = FirstContent
    /\ messages[2].messageContent = SecondContent
    /\ messages[1].messageContent = SecondContent
    /\ messages[1].isDeleted = 1
    /\ messages[1].messageStatus = "read"

\* C30: no step shortens the table or changes the id of a row, and a row
\* whose soft-delete flag is set keeps it set, whatever sends, edits,
\* deletes and status updates do.
C30_RowsStayFlagStays ==
    [][/\ Len(messages') >= Len(messages)
       /\ \A i \in 1 .. Len(messages) :
             /\ messages'[i].id = messages[i].id
             /\ messages[i].isDeleted = 1 => messages'[i].isDeleted = 1
      ]_vars

\* the status of a soft-deleted row was updated over HTTP: the row is
\* there, deleted, and read
C30_Witness ==
    /\ Len(emitted) = 1
    /\ emitted[1].ev = "response"
    /\ emitted[1].msg = "Message status updated successfully"
    /\ messages[1].isDeleted = 1
    /\ messages[1].messageStatus = "read"
    /\ Len(messages) = 2

\* C31: the step that broadcasts a persisted send leaves no typing entry
\* and no timer for (projectId, senderId), emits new-message first and,
\* if there was an entry, one user-stopped-typing after it, and leaves the
\* other entries alone; an entry comes into being by a typing signal only;
\* a send that ends in a rejection (blank content, not a member, a store
\* call that failed) leaves the typing map and the timers as they were.
C31_SendClearsTyping ==
    [][/\ \A h \in Slots :
             SendFetch(h, TRUE)
             => LET r == inflight[h]
                    k == <<r.projectId, r.userId>>
                IN
                /\ typingUsers'[k] = NoTimer
                /\ \A t \in timers' : <<t.projectId, t.userId>> # k
                /\ \A j \in DOMAIN typingUsers :
                      j # k => typingUsers'[j] = typingUsers[j]
                /\ emitted'[1].ev = "new-message"
                /\ emitted'[1].row = messages[r.lastID]
                /\ IF typingUsers[k] # NoTimer
                   THEN /\ Len(emitted') = 2
                        /\ emitted'[2].ev = "user-stopped-typing"
                        /\ emitted'[2].userId = r.userId
                        /\ emitted'[2].to = Room(r.projectId)
                   ELSE Len(emitted') = 1
       /\ \A k \in DOMAIN typingUsers :
             (typingUsers[k] = NoTimer /\ typingUsers'[k] # NoTimer)
             => \E c \in Conns : Typing(c, k[1], k[2], UserName(k[2]))
       /\ (\E p \in Projects, m \in {<<SP>>, FirstContent} :
              SendMessage(1, p, 1, UserName(1), m, NullId, NullId))
             => (typingUsers' = typingUsers /\ timers' = timers)
       /\ \A h \in Slots :
             (/\ inflight[h].kind = "send"
              /\ inflight[h].pc # "send_fetch"
              /\ inflight'[h] # inflight[h])
             => (typingUsers' = typingUsers /\ timers' = timers)
      ]_vars

\* a send to project 1 got through while its sender had typing entries for
\* both projects: the entry of project 1 is gone, the other one is there
C31_Witness ==
    /\ Len(emitted) = 2
    /\ emitted[1].ev = "new-message"
    /\ emitted[1].row.projectId = 1
    /\ emitted[2].ev = "user-stopped-typing"
    /\ typingUsers[<<1, 1>>] = NoTimer
    /\ typingUsers[<<2, 1>>] # NoTimer
    /\ Cardinality(timers) = 1

\* C32 (as claimed): a typing signal never makes a connection receive
\* user-stopped-typing, whether or not the key has a live entry.
C32_RefreshKeepsTyping ==
    [][\A c \in Conns, p \in Projects :
          Typing(c, p, 1, UserName(1))
          => \A i \in StoppedTyping(emitted') : emitted'[i].to = {}
      ]_vars

\* C33 (as claimed): user-joined is emitted only for a connection that is
\* open: a join that completes after the disconnect announces nobody.
C33_NoJoinAfterDisconnect ==
    [][\A i \in 1 .. Len(emitted') :
          emitted'[i].ev = "user-joined"
          => sockets[emitted'[i].from].status = "connected"
      ]_vars

\* C34 (as claimed): a send-message of a connection that is not stamped as
\* user 1 and carries senderId 1 leaves the rate window of user 1 alone.
C34_WindowOfStampedUser ==
    [][\A c \in Conns, p \in Projects, m \in Contents, r \in {NullId, 1} :
          (/\ sockets[c].userId # 1
           /\ SendMessage(c, p, 1, UserName(1), m, r,
                          IF r = NullId THEN NullId ELSE 1))
          => userMessageRateLimit'[1] = userMessageRateLimit[1]
      ]_vars

\* C35 (as claimed): message-deleted is emitted only for a row whose
\* soft-delete flag was not set before the step: once per message.
C35_DeletedAnnouncedOnce ==
    [][\A i \in 1 .. Len(emitted') :
          emitted'[i].ev = "message-deleted"
          => messages[emitted'[i].messageId].isDeleted = 0
      ]_vars

\* C36 (as claimed): a stored row that carries a reply snapshot, and a
\* new-message that carries one, quote a row of the same project.
C36_QuoteOfSameProject ==
    /\ \A i \in 1 .. Len(messages) :
          messages[i].replyToMessageContent # NullText
          => /\ messages[i].replyToMessageId \in 1 .. Len(messages)
             /\ messages[messages[i].replyToMessageId].projectId
                   = messages[i].projectId
    /\ \A i \in 1 .. Len(emitted) :
          (/\ emitted[i].ev = "new-message"
           /\ emitted[i].row.replyToMessageContent # NullText)
          => messages[emitted[i].row.replyToMessageId].projectId
                = emitted[i].row.projectId

\* C37 (as claimed): the connections a new-message, message-edited or
\* message-deleted is delivered to are stamped with a user who is an
\* approved member of the message's project when the event is emitted.
C37_OnlyMembersReceive ==
    [][\A i \in 1 .. Len(emitted') :
          emitted'[i].ev \in {"new-message", "message-edited",
                              "message-deleted"}
          => \A c \in emitted'[i].to :
                isProjectMember(messages'[emitted'[i].messageId].projectId,
                                sockets[c].userId)
      ]_vars

\* C39 (as claimed): a connection is in at most one room, the room of the
\* project stamped on it.
C39_OneRoomPerConnection ==
    \A c \in Conns :
        /\ Cardinality(sockets[c].rooms) <= 1
        /\ sockets[c].rooms \subseteq {sockets[c].projectId}

\* C40 (as claimed): a connection stamped as a user by a join writes only
\* as that user: the row a send inserts carries the stamped user as
\* senderId, and the row an edit or delete updates was sent by that user.
C40_ActsAsStampedUser ==
    [][\A h \in Slots :
          LET r == inflight[h] IN
          /\ (SendInsert(h, TRUE) /\ sockets[r.conn].userId # NullId)
             => messages'[Len(messages')].senderId = sockets[r.conn].userId
          /\ ((EditUpdate(h, TRUE) \/ DeleteUpdate(h, TRUE))
                /\ sockets[r.conn].userId # NullId
                /\ messages' # messages)
             => messages[r.messageId].senderId = sockets[r.conn].userId
      ]_vars

\* C38: a send that the limiter lets pass is counted when it is received,
\* blank or not: the sender's window gets count + 1, or a new window with
\* count 1 is opened if there is none or it is 10 seconds old; the steps
\* that reject the send later (not a member, a store call that failed) and
\* the steps that persist it leave the window as it is.
C38_RejectedSendsCount ==
    [][/\ \A u \in Users, m \in {<<SP>>, FirstContent} :
             SendMessage(1, 1, u, UserName(u), m, NullId, NullId)
             => LET w == userMessageRateLimit[u]
                    open == w # NoWindow /\ now - w.timestamp < 10000
                IN
                IF open /\ w.count >= 5
                THEN userMessageRateLimit' = userMessageRateLimit
                ELSE /\ userMessageRateLimit'[u] =
                          IF open
                          THEN [count |-> w.count + 1,
                                timestamp |-> w.timestamp]
                          ELSE [count |-> 1, timestamp |-> now]
                     /\ \A v \in Users \ {u} :
                           userMessageRateLimit'[v] = userMessageRateLimit[v]
       /\ \A h \in Slots :
             (inflight[h].kind = "send" /\ inflight'[h] # inflight[h])
             => userMessageRateLimit' = userMessageRateLimit
      ]_vars

\* user 2, who is not an approved member of project 1, is throttled on the
\* sixth send of a window although nothing was persisted
C38_Witness ==
    /\ messages = <<>>
    /\ userMessageRateLimit[2].count = 5
    /\ userMessageRateLimit[1] = NoWindow
    /\ Len(emitted) = 1
    /\ emitted[1].ev = "error"
    /\ emitted[1].msg = ThrottleMessage

====
